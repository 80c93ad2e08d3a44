------------------------------ MODULE ToolProofs ------------------------------
(***************************************************************************)
(* Proofs about the tools for any commits, schemas and archives: what an   *)
(* update leaves and a check accepts, what the integration tests ran, and  *)
(* what a verified distribution holds.  The tools share the pin.           *)
(***************************************************************************)
EXTENDS GeneratedPackage, IntegrationTests, Distributions, NumberLemmas

-----------------------------------------------------------------------------
(* update_protocol.py *)

\* The package that the pinned commit and the pinned tools give.
Pinned == Output(pin, TRUE)

Fields == {"at", "check", "out", "stale", "left"}

\* What is left to do of an update, and what is done: stale files go first, then
\* the generated files are written in their order.
FilesInv ==
    /\ run.left \in {GeneratedFiles, <<"__init__.py">>, <<>>}
    /\ run.left = GeneratedFiles =>
          DOMAIN package \subseteq run.stale \cup {"protocol.py", "__init__.py"}
    /\ run.left # GeneratedFiles => run.stale = {}
    /\ run.left = <<"__init__.py">> =>
          /\ DOMAIN package \subseteq {"protocol.py", "__init__.py"}
          /\ "protocol.py" \in DOMAIN package
          /\ package["protocol.py"] = Pinned["protocol.py"]
    /\ run.left = <<>> => package = Pinned

\* A running tool holds the output for the pin, which is not moved meanwhile.
Running ==
    /\ run = [field \in Fields |-> run[field]]
    /\ run.at \in {"compare", "replace", "files"}
    /\ run.out = Pinned
    /\ ret = "none"
    /\ run.at = "files" => FilesInv

PackageInv ==
    /\ versions \in BOOLEAN
    /\ run = Idle \/ Running
    /\ UpdateRepairs

\* The generated files, as a set.
LEMMA TwoFiles ==
    /\ Range(GeneratedFiles) = {"protocol.py", "__init__.py"}
    /\ Head(GeneratedFiles) = "protocol.py"
    /\ Tail(GeneratedFiles) = <<"__init__.py">>
    /\ GeneratedFiles # <<"__init__.py">> /\ GeneratedFiles # <<>>
    /\ Head(<<"__init__.py">>) = "__init__.py" /\ Tail(<<"__init__.py">>) = <<>>
    /\ <<"__init__.py">> # <<>>
<1>1. DOMAIN GeneratedFiles = {1, 2}
  BY DEF GeneratedFiles
<1>2. Range(GeneratedFiles) = {"protocol.py", "__init__.py"}
  BY <1>1 DEF Range, GeneratedFiles
<1> QED
  BY <1>2 DEF GeneratedFiles

\* The output has exactly the generated files.
LEMMA PinnedFiles ==
    Pinned = [file \in {"protocol.py", "__init__.py"} |-> Pinned[file]]
<1>1. Pinned = [file \in Range(GeneratedFiles) |-> Pinned[file]]
  BY DEF Pinned, Output
<1> QED
  BY <1>1, TwoFiles

\* While the tool runs, its record is not the idle one.
LEMMA IdleAt == Idle.at = "idle"
BY DEF Idle

\* A tool that starts holds the pinned output and has told nothing yet.
LEMMA GenerateStep ==
    ASSUME PackageInv, NEW check \in BOOLEAN, NEW source \in BOOLEAN, Generate(check, source)
    PROVE  PackageInv'
<1>1. versions = TRUE
  BY DEF PackageInv, Generate, Prepared
<1>2. Pinned' = Pinned /\ versions' = versions
  BY DEF Generate, world, Pinned, Output
<1>3. run' = [Idle EXCEPT !.at = IF check THEN "compare" ELSE "replace", !.check = check,
                          !.out = Pinned]
  BY <1>1 DEF Generate, Source, Pinned
<1>4. run' = [field \in Fields |-> run'[field]] /\ run'.out = Pinned
      /\ run'.at \in {"compare", "replace"}
  BY <1>3 DEF Idle, Fields
<1>5. ret' = "none"
  BY DEF Generate
<1>6. UpdateRepairs'
  BY <1>5 DEF UpdateRepairs
<1>7. versions' \in BOOLEAN
  BY <1>2 DEF PackageInv
<1> QED
  BY <1>2, <1>4, <1>5, <1>6, <1>7 DEF PackageInv, Running

\* A run that ends without having generated leaves nothing to be shown.
LEMMA EndStep ==
    ASSUME PackageInv, NEW how, how # "generated", End(how), UNCHANGED world
    PROVE  PackageInv'
BY DEF PackageInv, End, UpdateRepairs, world

\* A step of a running tool that stays in the list of files.
LEMMA FilesStep ==
    ASSUME PackageInv, Running, UNCHANGED <<world, ret>>, run'.at = "files",
           run' = [field \in Fields |-> run'[field]], run'.out = run.out, FilesInv'
    PROVE  PackageInv'
<1>1. Pinned' = Pinned /\ versions' = versions
  BY DEF world, Pinned, Output
<1>2. ret' = "none" /\ run'.out = Pinned
  BY DEF Running
<1>3. UpdateRepairs'
  BY <1>2 DEF UpdateRepairs
<1>4. versions' \in BOOLEAN
  BY <1>1 DEF PackageInv
<1> QED
  BY <1>1, <1>2, <1>3, <1>4 DEF PackageInv, Running

\* What is there is looked up before the first file is touched.
LEMMA ReplaceStep ==
    ASSUME PackageInv, Replace
    PROVE  PackageInv'
<1>1. Running
  BY IdleAt DEF PackageInv, Replace
<1>2. run' = [run EXCEPT !.at = "files", !.stale = DOMAIN package \ DOMAIN run.out,
                         !.left = GeneratedFiles]
  BY DEF Replace
<1>3. /\ run' = [field \in Fields |-> run'[field]] /\ run'.at = "files" /\ run'.out = run.out
      /\ run'.left = GeneratedFiles /\ run'.stale = DOMAIN package \ DOMAIN run.out
  BY <1>1, <1>2 DEF Running, Fields
<1>4. DOMAIN run.out = {"protocol.py", "__init__.py"}
  BY <1>1, PinnedFiles DEF Running
<1>5. package' = package
  BY DEF Replace
<1>6. FilesInv'
  BY <1>3, <1>4, <1>5, TwoFiles DEF FilesInv
<1> QED
  BY <1>1, <1>3, <1>6, FilesStep DEF Replace

\* Stale files are removed while every generated file is still to be written.
LEMMA UnlinkStep ==
    ASSUME PackageInv, NEW file \in run.stale, UnlinkStale(file)
    PROVE  PackageInv'
<1>1. Running /\ FilesInv
  BY IdleAt DEF PackageInv, UnlinkStale, Running
<1>2. run' = [run EXCEPT !.stale = @ \ {file}]
      /\ package' = [f \in DOMAIN package \ {file} |-> package[f]]
  BY DEF UnlinkStale
<1>3. /\ run' = [field \in Fields |-> run'[field]] /\ run'.at = "files" /\ run'.out = run.out
      /\ run'.left = run.left /\ run'.stale = run.stale \ {file}
  BY <1>1, <1>2 DEF Running, Fields, UnlinkStale
<1>4. run.left = GeneratedFiles
  BY <1>1 DEF FilesInv
<1>5. DOMAIN package' = DOMAIN package \ {file}
  BY <1>2
<1>6. FilesInv'
  BY <1>1, <1>3, <1>4, <1>5, TwoFiles DEF FilesInv
<1> QED
  BY <1>1, <1>3, <1>6, FilesStep DEF UnlinkStale

\* The last file that is written completes the package.
LEMMA WriteStep ==
    ASSUME PackageInv, WriteFile
    PROVE  PackageInv'
<1>1. Running /\ FilesInv
  BY IdleAt DEF PackageInv, WriteFile, Writing, Running
<1> DEFINE name == Head(run.left)
           content == run.out[name]
<1>2. package' = [f \in DOMAIN package \cup {name} |->
                        IF f = name THEN content ELSE package[f]]
  BY DEF WriteFile, Put
<1>3. run' = [run EXCEPT !.left = Tail(@)] /\ run.left # <<>> /\ run.stale = {}
  BY DEF WriteFile, Writing
<1>4. /\ run' = [field \in Fields |-> run'[field]] /\ run'.at = "files" /\ run'.out = run.out
      /\ run'.left = Tail(run.left) /\ run'.stale = {}
  BY <1>1, <1>3 DEF Running, Fields, WriteFile, Writing
<1>5. Pinned' = Pinned /\ run.out = Pinned
  BY <1>1 DEF WriteFile, world, Pinned, Output, Running
<1>6. FilesInv'
  <2>1. CASE run.left = GeneratedFiles
    <3>1. name = "protocol.py" /\ run'.left = <<"__init__.py">>
      BY <2>1, <1>4, TwoFiles
    <3>2. DOMAIN package \subseteq {"protocol.py", "__init__.py"}
      BY <2>1, <1>1, <1>3 DEF FilesInv
    <3>3. /\ DOMAIN package' \subseteq {"protocol.py", "__init__.py"}
          /\ "protocol.py" \in DOMAIN package'
          /\ package'["protocol.py"] = Pinned["protocol.py"]
      BY <3>1, <3>2, <1>2, <1>5
    <3> HIDE DEF name, content
    <3> QED
      BY <3>1, <3>3, <1>4, <1>5, TwoFiles DEF FilesInv
  <2>2. CASE run.left = <<"__init__.py">>
    <3>1. name = "__init__.py" /\ run'.left = <<>>
      BY <2>2, <1>4, TwoFiles
    <3>2. /\ DOMAIN package \subseteq {"protocol.py", "__init__.py"}
          /\ "protocol.py" \in DOMAIN package
          /\ package["protocol.py"] = Pinned["protocol.py"]
      BY <2>2, <1>1 DEF FilesInv
    <3>3. package' = [f \in {"protocol.py", "__init__.py"} |-> Pinned[f]]
      BY <3>1, <3>2, <1>2, <1>5
    <3>4. package' = Pinned'
      BY <3>3, <1>5, PinnedFiles
    <3> HIDE DEF name, content
    <3> QED
      BY <3>1, <3>4, <1>4, TwoFiles DEF FilesInv
  <2> QED
    BY <2>1, <2>2, <1>1, <1>3 DEF FilesInv
<1> QED
  BY <1>1, <1>4, <1>6, FilesStep DEF WriteFile

\* An update ends with every file written.
LEMMA WrittenStep ==
    ASSUME PackageInv, Written
    PROVE  PackageInv'
<1>1. Running /\ FilesInv
  BY IdleAt DEF PackageInv, Written, Running
<1>2. package = Pinned
  BY <1>1 DEF FilesInv, Written
<1>3. package' = package /\ Pinned' = Pinned /\ versions' = versions
  BY DEF Written, world, Pinned, Output
<1>4. UpdateRepairs'
  BY <1>2, <1>3 DEF UpdateRepairs, Pinned
<1> QED
  BY <1>3, <1>4 DEF PackageInv, Written, End

\* The developer's changes take back what the last run has told.
LEMMA MaintainStep ==
    ASSUME PackageInv, Maintain
    PROVE  PackageInv'
<1>1. run' = Idle /\ ret' = "none"
  BY DEF Maintain
<1>2. versions' \in BOOLEAN
  <2>1. CASE Repin
    BY <2>1 DEF Repin
  <2>2. CASE UNCHANGED world
    BY <2>2 DEF PackageInv, world
  <2> QED
    BY <2>1, <2>2 DEF Maintain, Edit, ConvertLineEnds
<1> QED
  BY <1>1, <1>2 DEF PackageInv, UpdateRepairs

LEMMA PackageInvariant == Spec => []PackageInv
<1>1. Init => PackageInv
  BY DEF Init, PackageInv, UpdateRepairs
<1>2. PackageInv /\ [Next]_vars => PackageInv'
  <2> SUFFICES ASSUME PackageInv, [Next]_vars
               PROVE  PackageInv'
    OBVIOUS
  <2>1. ASSUME NEW check \in BOOLEAN, NEW source \in BOOLEAN, Generate(check, source)
        PROVE  PackageInv'
    BY <2>1, GenerateStep
  <2>2. CASE GenerateFails
    BY <2>2, EndStep DEF GenerateFails
  <2>3. CASE Compare
    <3> DEFINE how == IF SameFiles THEN "verified" ELSE "differs"
    <3>1. End(how) /\ how # "generated" /\ UNCHANGED world
      BY <2>3 DEF Compare
    <3> HIDE DEF how
    <3> QED
      BY <3>1, EndStep
  <2>4. CASE Replace
    BY <2>4, ReplaceStep
  <2>5. ASSUME NEW file \in run.stale, UnlinkStale(file)
        PROVE  PackageInv'
    BY <2>5, UnlinkStep
  <2>6. CASE WriteFile
    BY <2>6, WriteStep
  <2>7. CASE Written
    BY <2>7, WrittenStep
  <2>8. CASE StoppedWriting
    BY <2>8, EndStep DEF StoppedWriting
  <2>9. CASE Stopped
    BY <2>9, EndStep DEF Stopped
  <2>10. CASE Maintain
    BY <2>10, MaintainStep
  <2>11. CASE UNCHANGED vars
    <3>1. UNCHANGED <<history, pin, versions, package, run, ret>>
      BY <2>11 DEF vars, world
    <3> QED
      BY <3>1 DEF PackageInv, Running, FilesInv, UpdateRepairs, Pinned, Output
  <2> QED
    BY <2>1, <2>2, <2>3, <2>4, <2>5, <2>6, <2>7, <2>8, <2>9, <2>10, <2>11 DEF Next
<1> QED
  BY <1>1, <1>2, PTL DEF Spec

\* update_protocol.py: an update that ends leaves exactly what the pinned commit
\* and the pinned tools generate, whatever was edited, left over or half written.
THEOREM UpdateRepairsHolds == Spec => []UpdateRepairs
<1>1. PackageInv => UpdateRepairs
  BY DEF PackageInv
<1> QED
  BY <1>1, PackageInvariant, PTL

\* update_protocol.py --check passes exactly for that package and writes nothing.
THEOREM CheckIsHonestHolds == Spec => CheckIsHonest
<1> DEFINE Honest ==
        /\ run.at = "compare" => package' = package
        /\ run.at = "compare" /\ ret' = "verified" => Text(package) = Output(pin, TRUE)
        /\ run.at = "compare" /\ ret' = "differs" => Text(package) # Output(pin, TRUE)
<1>1. PackageInv /\ [Next]_vars => [Honest]_vars
  <2> SUFFICES ASSUME PackageInv, Next, run.at = "compare"
               PROVE  Honest
    BY DEF Honest
  <2>1. Running /\ run # Idle
    BY IdleAt DEF PackageInv
  <2>2. Compare \/ Stopped
    BY <2>1 DEF Next, Generate, GenerateFails, Replace, UnlinkStale, WriteFile, Writing, Written,
                StoppedWriting, Maintain
  <2>3. CASE Compare
    <3>1. SameFiles <=> Text(package) = Output(pin, TRUE)
      BY <2>1 DEF SameFiles, Running, Pinned
    <3> QED
      BY <2>3, <3>1 DEF Compare, End, Honest
  <2>4. CASE Stopped
    BY <2>4 DEF Stopped, End, Honest
  <2> QED
    BY <2>2, <2>3, <2>4
<1> QED
  BY <1>1, PackageInvariant, PTL DEF Spec, CheckIsHonest

-----------------------------------------------------------------------------
(* The merge of the schemas *)

\* Nothing is merged yet.
Unmerged == [ok |-> TRUE, defs |-> <<>>]

\* The loop up to its k-th turn.
Loop(schemas, k, g) ==
    g = [n \in 0..k |-> IF n = 0 THEN Unmerged ELSE AddSchema(g[n - 1], schemas[n])]

\* Up to every turn there is one.
LEMMA LoopExists ==
    ASSUME NEW schemas, NEW len \in Nat
    PROVE  \E g : Loop(schemas, len, g)
<1> DEFINE A == {k \in 0..len : \E g : Loop(schemas, k, g)}
<1>1. 0 \in A
  <2>1. Loop(schemas, 0, [n \in 0..0 |-> Unmerged])
    BY DEF Loop
  <2> QED
    BY <2>1
<1>2. ASSUME NEW k \in A, k < len PROVE k + 1 \in A
  <2>1. PICK g : Loop(schemas, k, g)
    OBVIOUS
  <2> DEFINE h == [n \in 0..(k + 1) |-> IF n <= k THEN g[n] ELSE AddSchema(g[k], schemas[n])]
  <2>2. ASSUME NEW n \in 0..(k + 1)
        PROVE  h[n] = IF n = 0 THEN Unmerged ELSE AddSchema(h[n - 1], schemas[n])
    <3>1. CASE n = 0
      BY <2>1, <3>1 DEF Loop
    <3>2. CASE n \in 1..k
      <4>1. g[n] = AddSchema(g[n - 1], schemas[n])
        BY <2>1, <3>2 DEF Loop
      <4>2. h[n] = g[n] /\ h[n - 1] = g[n - 1]
        BY <3>2
      <4> QED
        BY <3>2, <4>1, <4>2
    <3>3. CASE n = k + 1
      <4>1. h[n] = AddSchema(g[k], schemas[n]) /\ h[n - 1] = g[k]
        BY <3>3
      <4> QED
        BY <3>3, <4>1
    <3> QED
      BY <3>1, <3>2, <3>3
  <2>3. h = [n \in 0..(k + 1) |-> IF n = 0 THEN Unmerged ELSE AddSchema(h[n - 1], schemas[n])]
    <3>1. h = [n \in 0..(k + 1) |-> h[n]]
      OBVIOUS
    <3> HIDE DEF h
    <3> QED
      BY <2>2, <3>1
  <2>4. Loop(schemas, k + 1, h)
    <3> HIDE DEF h
    <3> QED
      BY <2>3 DEF Loop
  <2>5. k + 1 \in 0..len
    BY <1>2
  <2> HIDE DEF h
  <2> QED
    BY <2>4, <2>5
<1> QED
  <2>1. A \in SUBSET (0..len)
    OBVIOUS
  <2>2. len \in A
    <3> HIDE DEF A
    <3> QED
      BY <1>1, <1>2, <2>1, CountUp
  <2> QED
    BY <2>2

\* So the turns are the loop.
LEMMA TurnsAreLoop ==
    ASSUME NEW schemas, Len(schemas) \in Nat
    PROVE  Loop(schemas, Len(schemas), Turns(schemas))
<1>1. \E g : Loop(schemas, Len(schemas), g)
  BY LoopExists
<1>2. Turns(schemas) = CHOOSE g : Loop(schemas, Len(schemas), g)
  BY Zenon DEF Turns, Loop, Unmerged
<1> QED
  BY <1>1, <1>2, Zenon

\* A schema's definitions and its root are among the merged ones.
Kept(defs, schema) ==
    /\ \A name \in DOMAIN schema.defs : name \in DOMAIN defs /\ defs[name] = schema.defs[name]
    /\ schema.title \in DOMAIN defs /\ defs[schema.title] = schema.root

\* A turn that succeeds keeps what was merged before and adds its schema.
LEMMA AddKeeps ==
    ASSUME NEW merged, NEW schema, AddSchema(merged, schema).ok
    PROVE  /\ merged.ok
           /\ Kept(AddSchema(merged, schema).defs, schema)
           /\ \A s : Kept(merged.defs, s) => Kept(AddSchema(merged, schema).defs, s)
<1> DEFINE names == DOMAIN merged.defs \cup DOMAIN schema.defs
           defs == [name \in names \cup {schema.title} |->
                       IF name = schema.title THEN schema.root
                       ELSE IF name \in DOMAIN schema.defs THEN schema.defs[name]
                       ELSE merged.defs[name]]
           bad == ~merged.ok \/ Disagree(merged.defs, schema) \/ schema.title \in names
<1>1. AddSchema(merged, schema) = IF bad THEN Failed ELSE [ok |-> TRUE, defs |-> defs]
  BY Zenon DEF AddSchema
<1>2. Failed.ok = FALSE
  BY DEF Failed
<1>3. ~bad
  <2> HIDE DEF bad, defs
  <2> QED
    BY <1>1, <1>2
<1>4. AddSchema(merged, schema).defs = defs
  <2> HIDE DEF bad, defs
  <2> QED
    BY <1>1, <1>3
<1>5. merged.ok /\ schema.title \notin names
      /\ \A name \in DOMAIN merged.defs \cap DOMAIN schema.defs :
            merged.defs[name] = schema.defs[name]
  BY <1>3, Zenon DEF Disagree
<1>6. Kept(defs, schema)
  BY <1>5 DEF Kept
<1>7. ASSUME NEW s, Kept(merged.defs, s) PROVE Kept(defs, s)
  <2>1. ASSUME NEW name \in DOMAIN merged.defs
        PROVE  name \in DOMAIN defs /\ defs[name] = merged.defs[name]
    BY <1>5
  <2> HIDE DEF defs
  <2> QED
    BY <1>7, <2>1 DEF Kept
<1> QED
  BY <1>4, <1>5, <1>6, <1>7

\* The merge loses no definition and changes none.
LEMMA MergeKeeps ==
    ASSUME NEW schemas, Len(schemas) \in Nat, Turns(schemas)[Len(schemas)].ok
    PROVE  \A i \in 1..Len(schemas) : Kept(Turns(schemas)[Len(schemas)].defs, schemas[i])
<1> DEFINE len == Len(schemas)
           turn == Turns(schemas)
           A == {k \in 0..len : turn[k].ok => \A i \in 1..k : Kept(turn[k].defs, schemas[i])}
<1>1. \A k \in 0..len : k < len => turn[k + 1] = AddSchema(turn[k], schemas[k + 1])
  <2>1. Loop(schemas, len, turn)
    BY TurnsAreLoop
  <2> HIDE DEF turn, len
  <2> SUFFICES ASSUME len \in Nat, NEW k \in 0..len, k < len
               PROVE  turn[k + 1] = AddSchema(turn[k], schemas[k + 1])
    BY DEF len
  <2>2. k + 1 \in 0..len /\ k + 1 # 0 /\ (k + 1) - 1 = k
    OBVIOUS
  <2> QED
    BY <2>1, <2>2 DEF Loop
<1>2. 0 \in A
  OBVIOUS
<1>3. ASSUME NEW k \in A, k < len PROVE k + 1 \in A
  <2>1. k \in 0..len /\ k + 1 \in 0..len
    BY <1>3
  <2>2. SUFFICES ASSUME turn[k + 1].ok, NEW i \in 1..(k + 1)
                 PROVE  Kept(turn[k + 1].defs, schemas[i])
    BY <2>1
  <2>3. turn[k + 1] = AddSchema(turn[k], schemas[k + 1])
    BY <1>1, <1>3, <2>1
  <2>4. /\ turn[k].ok
        /\ Kept(turn[k + 1].defs, schemas[k + 1])
        /\ \A s : Kept(turn[k].defs, s) => Kept(turn[k + 1].defs, s)
    <3> HIDE DEF turn
    <3> QED
      BY <2>2, <2>3, AddKeeps
  <2>5. CASE i = k + 1
    BY <2>4, <2>5
  <2>6. CASE i \in 1..k
    BY <2>4, <2>6
  <2> QED
    BY <2>1, <2>5, <2>6
<1>4. len \in A
  <2>1. A \in SUBSET (0..len)
    OBVIOUS
  <2> HIDE DEF A, turn
  <2> QED
    BY <1>2, <1>3, <2>1, CountUp
<1> QED
  BY <1>4

\* The models of a merge that succeeds mean what each of its schemas means.
Meant(defs, schema) ==
    /\ \A name \in DOMAIN schema.defs :
          name \in DOMAIN defs /\ defs[name].type = Allowed(schema.defs, name)
    /\ schema.title \in DOMAIN defs /\ defs[schema.title].type = schema.root.type

\* Rewriting the conditional of RunIcons as a type changes no meaning.
LEMMA NormalizeMeans ==
    ASSUME NEW defs, NEW schema, OnlyIconsConditional(schema), Kept(defs, schema),
           NormalizeRunIcons(defs).ok
    PROVE  Meant(NormalizeRunIcons(defs).defs, schema)
<1> DEFINE rewritten == [defs EXCEPT !["RunIcons"] = [type |-> {"array"}, cond |-> "none"]]
<1>1. Failed.ok = FALSE
  BY DEF Failed
<1>2. ASSUME NEW name \in DOMAIN schema.defs, schema.defs[name].cond = "none"
      PROVE  Allowed(schema.defs, name) = schema.defs[name].type
  BY <1>2 DEF Allowed
<1>3. CASE defs["RunIcons"].cond = "none"
  <2>1. NormalizeRunIcons(defs).defs = defs
    BY <1>1, <1>3 DEF NormalizeRunIcons
  <2>2. ASSUME NEW name \in DOMAIN schema.defs PROVE schema.defs[name].cond = "none"
    BY <1>3 DEF Kept, OnlyIconsConditional
  <2> QED
    BY <1>2, <2>1, <2>2 DEF Kept, Meant
<1>4. CASE defs["RunIcons"].cond # "none"
  <2>1. /\ NormalizeRunIcons(defs).defs = rewritten
        /\ ~Unsupported(defs) /\ "RunIcons" \in DOMAIN defs
    BY <1>1, <1>4 DEF NormalizeRunIcons
  <2>2. /\ DOMAIN rewritten = DOMAIN defs
        /\ \A name \in DOMAIN defs : name # "RunIcons" => rewritten[name] = defs[name]
        /\ rewritten["RunIcons"].type = {"array"}
    BY <2>1
  <2> HIDE DEF rewritten
  <2>3. schema.title # "RunIcons"
    BY <1>4 DEF Kept, OnlyIconsConditional
  <2>4. ASSUME NEW name \in DOMAIN schema.defs, name # "RunIcons"
        PROVE  rewritten[name].type = Allowed(schema.defs, name)
    BY <1>2, <2>2, <2>4 DEF Kept, OnlyIconsConditional
  <2>5. ASSUME "RunIcons" \in DOMAIN schema.defs
        PROVE  Allowed(schema.defs, "RunIcons") = {"array"}
    <3>1. schema.defs["RunIcons"] = defs["RunIcons"]
      BY <2>5 DEF Kept
    <3>2. defs["RunIcons"].cond \in Conditionals
      BY <2>5, <3>1 DEF OnlyIconsConditional
    <3>3. defs["RunIcons"].cond = "null_is_list" /\ defs["RunIcons"].type = Kinds
      BY <1>4, <2>1, <3>2 DEF Unsupported, Conditionals
    <3>4. "ListOfString" \in DOMAIN schema.defs => "null" \notin schema.defs["ListOfString"].type
      BY <2>1 DEF Unsupported, Kept
    <3> QED
      BY <3>1, <3>3, <3>4 DEF Allowed, Kinds
  <2> QED
    BY <2>1, <2>2, <2>3, <2>4, <2>5 DEF Kept, Meant
<1> QED
  BY <1>3, <1>4

\* Both together.
LEMMA CombineMeans ==
    ASSUME NEW schemas, Len(schemas) \in Nat,
           \A i \in 1..Len(schemas) : OnlyIconsConditional(schemas[i]), Combine(schemas).ok
    PROVE  \A i \in 1..Len(schemas) : Meant(Combine(schemas).defs, schemas[i])
<1> DEFINE merged == Turns(schemas)[Len(schemas)]
<1>1. Combine(schemas) = IF merged.ok THEN NormalizeRunIcons(merged.defs) ELSE Failed
  BY Zenon DEF Combine
<1>2. Failed.ok = FALSE
  BY DEF Failed
<1> HIDE DEF merged
<1>3. merged.ok /\ Combine(schemas) = NormalizeRunIcons(merged.defs)
  BY <1>1, <1>2
<1>4. \A i \in 1..Len(schemas) : Kept(merged.defs, schemas[i])
  BY <1>3, MergeKeeps DEF merged
<1> QED
  BY <1>3, <1>4, NormalizeMeans

\* A package that was told to be right comes from schemas that merge.
MeaningInv ==
    /\ history \in Histories /\ pin \in Revisions
    /\ run # Idle \/ ret \in {"generated", "verified"} => Combine(history[pin]).ok
    /\ ret = "verified" => Text(package) = Pinned

LEMMA MeaningStep == PackageInv /\ MeaningInv /\ [Next]_vars => MeaningInv'
<1> SUFFICES ASSUME PackageInv, MeaningInv, [Next]_vars
             PROVE  MeaningInv'
  OBVIOUS
<1> DEFINE Merges == Combine(history[pin]).ok
<1>1. history' \in Histories /\ pin' \in Revisions
  BY DEF MeaningInv, Next, Generate, GenerateFails, Compare, Replace, UnlinkStale, WriteFile, Written,
         StoppedWriting, Stopped, Maintain, Repin, Edit, ConvertLineEnds, vars, world
<1>2. CASE UNCHANGED <<world, run>> /\ ret' = ret /\ package' = package
  <2>1. history' = history /\ pin' = pin
    BY <1>2 DEF world
  <2> QED
    BY <1>2, <2>1 DEF MeaningInv, Pinned, Output, Text
<1>3. CASE run' = Idle /\ ret' \notin {"generated", "verified"}
  BY <1>1, <1>3 DEF MeaningInv
<1>4. CASE run # Idle /\ UNCHANGED <<history, pin>> /\ ret' # "verified"
  BY <1>1, <1>4 DEF MeaningInv
<1>5. ASSUME NEW check \in BOOLEAN, NEW source \in BOOLEAN, Generate(check, source)
      PROVE  MeaningInv'
  <2>1. Merges /\ ret' = "none" /\ UNCHANGED <<history, pin>>
    BY <1>5 DEF Generate, Source, world
  <2> QED
    BY <1>1, <2>1 DEF MeaningInv
<1>6. CASE Compare
  <2>1. run # Idle /\ Running
    BY <1>6, IdleAt DEF Compare, PackageInv
  <2>2. Merges /\ UNCHANGED <<history, pin, package>>
    BY <1>6, <2>1 DEF MeaningInv, Compare, world
  <2>3. Pinned' = Pinned /\ Text(package)' = Text(package)
    BY <2>2 DEF Pinned, Output, Text
  <2>4. ret' = "verified" => Text(package) = Pinned
    BY <1>6, <2>1 DEF Compare, End, SameFiles, Running
  <2> QED
    BY <1>1, <2>2, <2>3, <2>4 DEF MeaningInv
<1>7. CASE Replace \/ (\E file \in run.stale : UnlinkStale(file)) \/ WriteFile \/ Written
  <2>1. run # Idle /\ Running
    BY <1>7, IdleAt DEF PackageInv, Replace, UnlinkStale, WriteFile, Writing, Written
  <2>2. ret' \in {"none", "generated"} /\ UNCHANGED <<history, pin>>
    BY <1>7, <2>1 DEF Running, Replace, UnlinkStale, WriteFile, Written, End, world
  <2> QED
    BY <1>4, <2>1, <2>2
<1>8. CASE GenerateFails \/ StoppedWriting \/ Stopped \/ Maintain
  <2>1. run' = Idle /\ ret' \in {"failed", "stopped", "none"}
    BY <1>8 DEF GenerateFails, StoppedWriting, Stopped, Maintain, End
  <2> QED
    BY <1>3, <2>1
<1>9. CASE UNCHANGED vars
  BY <1>2, <1>9 DEF vars
<1> QED
  BY <1>5, <1>6, <1>7, <1>8, <1>9 DEF Next

\* The models of an output are the types of the merge.
LEMMA PinnedModels ==
    Pinned["protocol.py"].models = Codegen(Combine(history[pin]).defs)
<1>1. "protocol.py" \in Range(GeneratedFiles)
  BY TwoFiles
<1> QED
  BY <1>1 DEF Pinned, Output

\* A package that was told to be right has these models.
LEMMA ToldModels ==
    ASSUME PackageInv, MeaningInv, ret \in {"generated", "verified"}
    PROVE  package["protocol.py"].models = Codegen(Combine(history[pin]).defs)
<1>1. CASE ret = "generated"
  BY <1>1, PinnedModels DEF PackageInv, UpdateRepairs, Pinned
<1>2. CASE ret = "verified"
  <2>1. Text(package) = Pinned
    BY <1>2 DEF MeaningInv
  <2>2. "protocol.py" \in DOMAIN package
    BY <2>1, PinnedFiles DEF Text
  <2>3. Pinned["protocol.py"] = [package["protocol.py"] EXCEPT !.crlf = FALSE]
    BY <2>1, <2>2 DEF Text
  <2>4. "models" \in DOMAIN Pinned["protocol.py"]
    BY TwoFiles DEF Pinned, Output
  <2>5. Pinned["protocol.py"].models = package["protocol.py"].models
    BY <2>3, <2>4
  <2> QED
    BY <2>5, PinnedModels
<1> QED
  BY <1>1, <1>2

\* update_protocol.py: the models of a package that was generated or verified
\* accept of each name what every schema that uses the name accepts, for any
\* number of schemas and definitions.
THEOREM OneMeaningHolds == Spec => []OneMeaning
<1>1. Init => MeaningInv
  BY DEF Init, MeaningInv
<1>2. PackageInv /\ MeaningInv => OneMeaning
  <2> SUFFICES ASSUME PackageInv, MeaningInv, ret \in {"generated", "verified"},
                      NEW i \in DOMAIN history[pin]
               PROVE  LET schema == history[pin][i]
                          models == package["protocol.py"].models
                      IN /\ \A name \in DOMAIN schema.defs :
                               name \in DOMAIN models
                                  /\ models[name] = Allowed(schema.defs, name)
                         /\ schema.title \in DOMAIN models
                         /\ models[schema.title] = schema.root.type
    BY DEF OneMeaning
  <2> DEFINE schemas == history[pin]
             defs == Combine(schemas).defs
  <2>1. /\ schemas \in Seq(Range(schemas))
        /\ \A schema \in Range(schemas) : OnlyIconsConditional(schema)
    BY HistoryAssumption DEF MeaningInv
  <2>2. Len(schemas) \in Nat /\ DOMAIN schemas = 1..Len(schemas)
    <3> HIDE DEF schemas
    <3> QED
      BY <2>1
  <2>3. \A j \in 1..Len(schemas) : OnlyIconsConditional(schemas[j])
    BY <2>1, <2>2 DEF Range
  <2>4. Meant(defs, schemas[i])
    <3>1. Combine(schemas).ok /\ i \in 1..Len(schemas)
      BY <2>2 DEF MeaningInv
    <3> HIDE DEF schemas
    <3>2. \A j \in 1..Len(schemas) : Meant(Combine(schemas).defs, schemas[j])
      BY <2>2, <2>3, <3>1, CombineMeans
    <3> QED
      BY <3>1, <3>2
  <2>5. package["protocol.py"].models = [name \in DOMAIN defs |-> defs[name].type]
    BY ToldModels DEF Codegen
  <2> HIDE DEF defs
  <2> QED
    BY <2>4, <2>5 DEF Meant
<1> QED
  BY <1>1, <1>2, MeaningStep, PackageInvariant, PTL DEF Spec

-----------------------------------------------------------------------------
(* run_integration.py, which reads the same pin *)

\* From the comparison on the checkout is the pinned one; what is built is built
\* from it, in the order of the steps.
TestsInv ==
    /\ at \in {"idle", "clone", "checkout", "compare", "host", "samples", "pytest"}
    /\ at # "idle" => rev = pin /\ tested = "none"
    /\ at \in {"host", "samples", "pytest"} => checkout.head = rev
    /\ at \in {"samples", "pytest"} => host = checkout /\ host.tree # "empty"
    /\ at = "pytest" => samples = host
    /\ TestedIsPinned

LEMMA TestsInvariant == TestsSpec => []TestsInv
<1>1. TestsInit => TestsInv
  BY DEF TestsInit, TestsInv, TestedIsPinned
<1>2. TestsInv /\ [TestsNext]_testVars => TestsInv'
  <2> SUFFICES ASSUME TestsInv, [TestsNext]_testVars
               PROVE  TestsInv'
    OBVIOUS
  <2> USE DEF TestsInv, TestedIsPinned
  <2>1. CASE Start
    BY <2>1 DEF Start
  <2>2. ASSUME NEW tip \in Revisions, Clone(tip)
        PROVE  TestsInv'
    BY <2>2 DEF Clone
  <2>3. CASE Checkout
    BY <2>3 DEF Checkout
  <2>4. CASE CompareHead
    BY <2>4 DEF CompareHead
  <2>5. CASE BuildHost
    BY <2>5 DEF BuildHost
  <2>6. CASE WriteSamples
    BY <2>6 DEF WriteSamples
  <2>7. CASE TestsPass
    BY <2>7 DEF TestsPass
  <2>8. CASE TestsStopped
    BY <2>8 DEF TestsStopped
  <2>9. CASE MaintainCheckout
    BY <2>9 DEF MaintainCheckout
  <2>10. CASE UNCHANGED testVars
    BY <2>10 DEF testVars
  <2> QED
    BY <2>1, <2>2, <2>3, <2>4, <2>5, <2>6, <2>7, <2>8, <2>9, <2>10 DEF TestsNext
<1> QED
  BY <1>1, <1>2, PTL DEF TestsSpec

\* run_integration.py: tests that pass ran a host and samples of one checkout at
\* the pinned commit, whatever an earlier or interrupted run left there.
THEOREM TestedIsPinnedHolds == TestsSpec => []TestedIsPinned
<1>1. TestsInv => TestedIsPinned
  BY DEF TestsInv
<1> QED
  BY <1>1, TestsInvariant, PTL

-----------------------------------------------------------------------------
(* verify_distributions.py *)

\* Of what an import reaches, the package's own modules are all in the list
\* that is looked for.
LEMMA ImportsListed == Needed \subseteq RequiredSuffixes \cup Libraries
<1>1. DOMAIN Imports \subseteq RequiredSuffixes
  BY DEF Imports, RequiredSuffixes
<1> QED
  BY <1>1 DEF Needed

LEMMA ArchivesInvariant == ArchivesSpec => [](verdict = "verified" => Accepted)
<1> DEFINE Inv == verdict = "verified" => Accepted
<1>1. ArchivesInit => Inv
  BY DEF ArchivesInit
<1>2. Inv /\ [Main]_archiveVars => Inv'
  BY DEF Main, archiveVars, Accepted
<1> QED
  BY <1>1, <1>2, PTL DEF ArchivesSpec

\* A wheel that verify() and the check of its requirements accept lacks nothing
\* but what they cannot notice.
LEMMA WheelGaps ==
  ASSUME NEW wheel, Verify(wheel.entries, TRUE), Requirements(wheel.requires)
  PROVE  Missing(wheel) \subseteq Unnoticed(wheel)
<1> SUFFICES ASSUME NEW m \in Missing(wheel)
             PROVE  m \in Unnoticed(wheel)
  OBVIOUS
<1>1. m \in Needed /\ m \notin Provided(wheel.requires)
  BY DEF Missing
\* A module: verify() found it somewhere, so it lies in another place.
<1>2. CASE m \notin Libraries
  <2>1. m \in RequiredSuffixes
    BY <1>1, <1>2, ImportsListed
  <2> QED
    BY <1>1, <1>2, <2>1 DEF Verify, Unnoticed
<1>3. CASE m = "websocket"
  BY <1>3 DEF Unnoticed
\* Pydantic and what it brings: a requirement begins with the name, and it is
\* not "pydantic", for that would bring the library.
<1>4. CASE m \in {"pydantic", "typing_extensions"}
  <2>1. "pydantic" \notin wheel.requires
    BY <1>1, <1>4 DEF Provided, Brings, Libraries
  <2>2. wheel.requires \cap (Pydantics \ {"pydantic"}) # {}
    BY <2>1 DEF Requirements
  <2> QED
    BY <1>4, <2>2 DEF Unnoticed
<1> QED
  BY <1>2, <1>3, <1>4 DEF Libraries

\* verify_distributions.py: for any directory of archives that it verifies, what
\* an import of the wheel lacks is one of the known gaps of the check, the source
\* distribution has every module an import reaches, and neither holds a schema.
THEOREM OnlyKnownGapsHolds == ArchivesSpec => []OnlyKnownGaps
<1>1. ASSUME Accepted
      PROVE  OnlyKnownGaps
  <2>1. ASSUME NEW wheel \in wheels
        PROVE  /\ Missing(wheel) \subseteq Unnoticed(wheel)
               /\ ~Has(wheel.entries, "schema")
    <3>1. Verify(wheel.entries, TRUE) /\ Requirements(wheel.requires)
      BY <1>1 DEF Accepted
    <3> QED
      BY <3>1, WheelGaps DEF Verify, Schemas
  <2>2. ASSUME NEW sdist \in sdists
        PROVE  /\ \A m \in Needed \ Libraries : Has(sdist.entries, m)
               /\ ~Has(sdist.entries, "schema")
    <3>1. Verify(sdist.entries, FALSE)
      BY <1>1 DEF Accepted
    <3> QED
      BY <3>1, ImportsListed DEF Verify, Schemas
  <2> QED
    BY <2>1, <2>2 DEF OnlyKnownGaps
<1>2. (verdict = "verified" => Accepted) => OnlyKnownGaps
  BY <1>1 DEF OnlyKnownGaps
<1> QED
  BY <1>2, ArchivesInvariant, PTL
=============================================================================
