----------------------------- MODULE SchemaMerge -----------------------------
(***************************************************************************)
(* combine() and normalize_run_icons() of tools/update_protocol.py: the    *)
(* official schemas merged into one, with the conditional that the code    *)
(* generator ignores rewritten as a type.  A definition is the kinds of    *)
(* value its "type" allows and the conditional beside it.                  *)
(***************************************************************************)
EXTENDS Integers, Sequences

Kinds == {"null", "array"}

\* The conditional of a definition: absent, "a null must be a ListOfString",
\* or any other.
Conditionals == {"none", "null_is_list", "other"}

\* A conditional that is not the expected one over the expected types.
Unsupported(defs) ==
    \/ defs["RunIcons"].cond = "other"
    \/ "ListOfString" \notin DOMAIN defs
    \/ defs["ListOfString"].type # {"array"}
    \/ defs["RunIcons"].type # Kinds

Failed == [ok |-> FALSE, defs |-> <<>>]

NormalizeRunIcons(defs) ==
    IF "RunIcons" \notin DOMAIN defs THEN Failed
    ELSE IF defs["RunIcons"].cond = "none" THEN [ok |-> TRUE, defs |-> defs]
    ELSE IF Unsupported(defs) THEN Failed
    ELSE [ok |-> TRUE,
          defs |-> [defs EXCEPT !["RunIcons"] = [type |-> {"array"}, cond |-> "none"]]]

\* Seeded fault: the last definition of a name wins.
Fault_Disagree(defs, schema) == FALSE

\* Two schemas use a name for different things.
Disagree(defs, schema) ==
    \E name \in DOMAIN defs \cap DOMAIN schema.defs : defs[name] # schema.defs[name]

\* One turn of combine()'s loop: the definitions of a schema, then its root.
AddSchema(merged, schema) ==
    LET names == DOMAIN merged.defs \cup DOMAIN schema.defs
    IN IF ~merged.ok \/ Disagree(merged.defs, schema) \/ schema.title \in names
       THEN Failed
       ELSE [ok |-> TRUE,
             defs |-> [name \in names \cup {schema.title} |->
                          IF name = schema.title THEN schema.root
                          ELSE IF name \in DOMAIN schema.defs THEN schema.defs[name]
                          ELSE merged.defs[name]]]

\* The definitions after each turn.
Turns(schemas) ==
    LET turn[n \in 0..Len(schemas)] ==
            IF n = 0 THEN [ok |-> TRUE, defs |-> <<>>] ELSE AddSchema(turn[n - 1], schemas[n])
    IN turn

Combine(schemas) ==
    LET merged == Turns(schemas)[Len(schemas)]
    IN IF merged.ok THEN NormalizeRunIcons(merged.defs) ELSE Failed

\* What the merge relies on of the Bridge's schemas: the code generator ignores
\* conditionals, and only the one beside RunIcons is looked at.
OnlyIconsConditional(schema) ==
    /\ schema.root.cond = "none"
    /\ \A name \in DOMAIN schema.defs :
          schema.defs[name].cond \in IF name = "RunIcons" THEN Conditionals ELSE {"none"}
=============================================================================
