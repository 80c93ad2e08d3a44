--------------------------- MODULE MCDistributions ---------------------------
(***************************************************************************)
(* Distributions for TLC: archives that lack any one file, have it in      *)
(* another place, have any one too many or have none where it belongs;     *)
(* wheels that require what they should or anything else; and directories  *)
(* with no archive or two.                                                 *)
(***************************************************************************)
EXTENDS Distributions

LOCAL At(place, files) == [at : {place}, file : files]

LOCAL Variants(full) ==
    {At("home", full), At("elsewhere", full)}
    \cup {At("home", full \ {file}) : file \in full}
    \cup {At("home", full \ {file}) \cup At("elsewhere", {file}) : file \in full}
    \cup {At("home", full \cup {file}) : file \in Obsolete \cup Schemas \cup Sources}
    \cup {At("home", full) \cup At("elsewhere", {file}) : file \in Schemas}

LOCAL AllWheels ==
    [entries : Variants(RequiredSuffixes \cup {"_json"}),
     requires : SUBSET (Pydantics \cup {"websocket-client"})
                \cup {{"pydantic", "websocket-client", name} : name \in Development}]
LOCAL AllSdists == [entries : Variants(RequiredSuffixes \cup {"_json"} \cup Sources)]

LOCAL FirstTwo(archives) ==
    LET one == CHOOSE a \in archives : TRUE
    IN {one, CHOOSE a \in archives : a # one}

MCWheels == {{}, FirstTwo(AllWheels)} \cup {{wheel} : wheel \in AllWheels}
MCSdists == {{}, FirstTwo(AllSdists)} \cup {{sdist} : sdist \in AllSdists}
=============================================================================
