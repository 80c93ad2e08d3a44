----------------------------- MODULE BridgeJson -----------------------------
(***************************************************************************)
(* _json.py: what a JSON text is read as.  The objects of a text are still *)
(* sequences of pairs, as the parser meets them; a value has functions.    *)
(* The recursive decoder that BridgeMessages takes as parameters.          *)
(***************************************************************************)
EXTENDS BridgeMessages

\* Seeded fault: a property given twice has the value of the first.
Fault_Object(pairs) == TRUE

\* _object(): no property may be given twice.
Object(pairs) == \A i, j \in DOMAIN pairs : i # j => pairs[i][1] # pairs[j][1]

\* json.loads() with both hooks: they see every object and constant, however
\* deep.
RECURSIVE JsonLoads(_)
JsonLoads(text) ==
    CASE text[1] = "object" -> Object(text[2]) /\ \A i \in DOMAIN text[2] : JsonLoads(text[2][i][2])
      [] text[1] = "list"   -> \A i \in DOMAIN text[2] : JsonLoads(text[2][i])
      [] OTHER              -> text[1] \notin {"NaN", "garbage"}

RECURSIVE JsonValue(_)
JsonValue(text) ==
    CASE text[1] = "object" ->
            LET pairs == text[2]
            IN <<"object", [k \in {pairs[i][1] : i \in DOMAIN pairs} |->
                    JsonValue(pairs[CHOOSE i \in DOMAIN pairs : pairs[i][1] = k][2])]>>
      [] text[1] = "list"   -> <<"list", [i \in DOMAIN text[2] |-> JsonValue(text[2][i])]>>
      [] OTHER              -> text

-----------------------------------------------------------------------------
(* Properties *)

\* No property of a message is dropped silently: every pair of the text, however
\* deep, shows in the value that was accepted (README:62-63).
RECURSIVE Shows(_, _)
Shows(text, v) ==
    CASE text[1] = "object" ->
            /\ v[1] = "object" /\ DOMAIN v[2] = {text[2][i][1] : i \in DOMAIN text[2]}
            /\ \A i \in DOMAIN text[2] : Shows(text[2][i][2], v[2][text[2][i][1]])
      [] text[1] = "list" ->
            /\ v[1] = "list" /\ Len(v[2]) = Len(text[2])
            /\ \A i \in DOMAIN text[2] : Shows(text[2][i], v[2][i])
      [] OTHER -> v = text

NothingIgnored ==
    /\ Of("answer", "ok") \/ Of("answer", "remote") =>
          Shows(input.answer.frame.text, outcome.value)
    /\ Of("event", "ok") => Shows(input.frame.text, outcome.value)
=============================================================================
