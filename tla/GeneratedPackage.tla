--------------------------- MODULE GeneratedPackage ---------------------------
(***************************************************************************)
(* tools/update_protocol.py: the generated package is written, or compared *)
(* with --check, from the commit in protocol-source.json.  Any command or  *)
(* file operation may fail and the tool may be stopped between two steps,  *)
(* leaving the files as they are; the developer changes files only while   *)
(* the tool does not run.                                                  *)
(***************************************************************************)
EXTENDS SchemaMerge, PinnedSource, SequencesExt

CONSTANTS
    Histories,      \* for each commit its schemas in SCHEMA_FILES order
    OldFile         \* a file that is no longer generated

ASSUME HistoryAssumption ==
    \A schemas \in Histories, commit \in Revisions :
        /\ schemas[commit] \in Seq(Range(schemas[commit]))
        /\ \A schema \in Range(schemas[commit]) : OnlyIconsConditional(schema)

VARIABLES
    history,        \* the schemas of each commit
    versions,       \* the installed generator and formatter are the pinned ones
    head,           \* HEAD of the checkout that --source names
    files,          \* the commit whose schemas lie in its working tree
    package,        \* src/livesplit_bridge/_generated: file name to content
    run,            \* the running tool: where it is and its locals
    ret             \* how the last run ended, "none" once a file was changed

world == <<history, pin, versions, head, files>>
vars == <<world, package, run, ret>>

Idle == [at |-> "idle", check |-> FALSE, out |-> <<>>, stale |-> {}, left |-> <<>>]

Edited == [kind |-> "edited", crlf |-> FALSE]
Torn == [kind |-> "torn", crlf |-> FALSE]

\* What datamodel-code-generator makes of the merged definitions: types only.
Codegen(defs) == [name \in DOMAIN defs |-> defs[name].type]

GeneratedFiles == <<"protocol.py", "__init__.py">>

\* The result of generate(); its header names the commit.
Output(rev, pinned) ==
    [file \in Range(GeneratedFiles) |->
        IF file = "__init__.py" THEN [kind |-> "stub", crlf |-> FALSE]
        ELSE [kind |-> "models", crlf |-> FALSE, rev |-> rev, pinned |-> pinned,
              models |-> Codegen(Combine(history[rev]).defs)]]

\* read_text() translates line ends.
Text(dir) == [file \in DOMAIN dir |-> [dir[file] EXCEPT !.crlf = FALSE]]

Init ==
    /\ history \in Histories
    /\ pin \in Revisions
    /\ versions = TRUE
    /\ head \in Revisions
    /\ files = head
    /\ package = <<>>
    /\ run = Idle
    /\ ret = "none"

End(how) ==
    /\ run' = Idle
    /\ ret' = how

-----------------------------------------------------------------------------
(* update_protocol.py *)

\* Seeded fault: the schemas are read from the working tree.
Fault_Source(source) == IF source THEN files ELSE pin

\* The commit whose schemas generate() reads: local edits do not count.
Source(source) == pin

\* Seeded fault: the versions of the tools are not compared.
Fault_Prepared(source) == source => head = pin

\* main() up to generate(): a fresh clone is at the pinned commit, --source is
\* where its owner left it.
Prepared(source) == versions /\ (source => head = pin)

Generate(check, source) ==
    /\ run = Idle
    /\ Prepared(source)
    /\ Combine(history[Source(source)]).ok
    /\ run' = [Idle EXCEPT !.at = IF check THEN "compare" ELSE "replace", !.check = check,
                           !.out = Output(Source(source), versions)]
    /\ ret' = "none"
    /\ UNCHANGED <<world, package>>

\* Before a file is touched: not prepared, schemas that do not merge, or a
\* command that fails.
GenerateFails ==
    /\ run = Idle
    /\ End("failed")
    /\ UNCHANGED <<world, package>>

\* Seeded fault: only the generated files are compared.
Fault_SameFiles ==
    \A file \in DOMAIN run.out :
        file \in DOMAIN package /\ Text(package)[file] = run.out[file]

SameFiles == Text(package) = run.out

\* synchronize_generated(check=True)
Compare ==
    /\ run.at = "compare"
    /\ End(IF SameFiles THEN "verified" ELSE "differs")
    /\ UNCHANGED <<world, package>>

\* synchronize_generated(check=False): what is there is looked up once.
Replace ==
    /\ run.at = "replace"
    /\ run' = [run EXCEPT !.at = "files", !.stale = DOMAIN package \ DOMAIN run.out,
                          !.left = GeneratedFiles]
    /\ UNCHANGED <<world, package, ret>>

UnlinkStale(file) ==
    /\ run.at = "files"
    /\ file \in run.stale
    /\ package' = [f \in DOMAIN package \ {file} |-> package[f]]
    /\ run' = [run EXCEPT !.stale = @ \ {file}]
    /\ UNCHANGED <<world, ret>>

Writing == run.at = "files" /\ run.stale = {} /\ run.left # <<>>

\* Seeded fault: a file that exists is taken to be written.
Fault_Put(content) ==
    package' = [file \in DOMAIN package \cup {Head(run.left)} |->
                    IF file \in DOMAIN package THEN package[file] ELSE content]

\* What the next file to write becomes.
Put(content) ==
    package' = [file \in DOMAIN package \cup {Head(run.left)} |->
                    IF file = Head(run.left) THEN content ELSE package[file]]

WriteFile ==
    /\ Writing
    /\ Put(run.out[Head(run.left)])
    /\ run' = [run EXCEPT !.left = Tail(@)]
    /\ UNCHANGED <<world, ret>>

Written ==
    /\ run.at = "files" /\ run.stale = {} /\ run.left = <<>>
    /\ End("generated")
    /\ UNCHANGED <<world, package>>

\* write_text() empties the file before it writes.
StoppedWriting ==
    /\ Writing
    /\ Put(Torn)
    /\ End("stopped")
    /\ UNCHANGED world

Stopped ==
    /\ run # Idle
    /\ End("stopped")
    /\ UNCHANGED <<world, package>>

-----------------------------------------------------------------------------
(* The developer, and git on another system *)

\* Another pin, other versions, another commit checked out or files edited.
Repin ==
    /\ pin' \in Revisions /\ versions' \in BOOLEAN
    /\ head' \in Revisions /\ files' \in Revisions
    /\ UNCHANGED <<history, package>>

Edit(file) ==
    /\ \/ package' = (file :> Edited) @@ package
       \/ package' = [f \in DOMAIN package \ {file} |-> package[f]]
    /\ UNCHANGED world

ConvertLineEnds ==
    /\ package' = [f \in DOMAIN package |-> [package[f] EXCEPT !.crlf = TRUE]]
    /\ UNCHANGED world

Maintain ==
    /\ run = Idle
    /\ ret' = "none"
    /\ UNCHANGED run
    /\ \/ Repin
       \/ \E file \in Range(GeneratedFiles) \cup {OldFile} : Edit(file)
       \/ ConvertLineEnds

Next ==
    \/ \E check, source \in BOOLEAN : Generate(check, source)
    \/ GenerateFails
    \/ Compare
    \/ Replace \/ (\E file \in run.stale : UnlinkStale(file)) \/ WriteFile \/ Written
    \/ StoppedWriting \/ Stopped
    \/ Maintain

Spec == Init /\ [][Next]_vars

-----------------------------------------------------------------------------
(* Properties *)

\* tests/test_protocol_tool.py, README.md:244: --check passes exactly when the
\* package is what the pinned commit and the pinned tools generate - no file
\* edited, missing, torn or left over, whatever ran or was stopped before - and
\* it changes nothing.
CheckIsHonest ==
    [][/\ run.at = "compare" => package' = package
       /\ run.at = "compare" /\ ret' = "verified" => Text(package) = Output(pin, TRUE)
       /\ run.at = "compare" /\ ret' = "differs" => Text(package) # Output(pin, TRUE)]_vars

\* An update that ends repairs the package, also one that an earlier update left
\* half written: every file is that of the pinned commit and no other is there.
UpdateRepairs == ret = "generated" => package = Output(pin, TRUE)

\* What a value of a definition may be, by the schema itself.
Allowed(defs, name) ==
    {kind \in defs[name].type :
        defs[name].cond = "null_is_list" /\ kind = "null"
            => "ListOfString" \in DOMAIN defs /\ "null" \in defs["ListOfString"].type}

\* README.md:247-256: the merge loses no definition and gives none another
\* meaning: the models of a verified package accept of each name what every
\* schema that uses the name accepts.
OneMeaning ==
    ret \in {"generated", "verified"} =>
        \A i \in DOMAIN history[pin] :
            LET schema == history[pin][i]
                models == package["protocol.py"].models
            IN /\ \A name \in DOMAIN schema.defs :
                    name \in DOMAIN models /\ models[name] = Allowed(schema.defs, name)
               /\ schema.title \in DOMAIN models
               /\ models[schema.title] = schema.root.type
=============================================================================
