---------------------------- MODULE Distributions ----------------------------
(***************************************************************************)
(* tools/verify_distributions.py: what is built has one wheel and one      *)
(* source distribution, each with the modules of the package.  An entry of *)
(* an archive has a place, at, and the suffix that the tool looks for,     *)
(* file.  The place "home" is where the build puts that file and where an  *)
(* import looks for it; the tool never asks for the place.  A requirement  *)
(* is what the tool compares of a Requires-Dist: the name it begins with,  *)
(* or the name it contains.                                                *)
(***************************************************************************)
EXTENDS FiniteSets

CONSTANTS
    Wheels,         \* sets of wheels that a directory may hold
    Sdists          \* sets of source distributions

VARIABLES wheels, sdists, verdict
archiveVars == <<wheels, sdists, verdict>>

\* Seeded fault: a module that was added later is not in the list.
Fault_RequiredSuffixes ==
    {"__init__", "models", "_generated", "protocol", "_api", "rpc", "events", "client", "py.typed"}

RequiredSuffixes ==
    {"__init__", "models", "_generated", "protocol", "_api", "_json", "rpc", "events",
     "client", "py.typed"}

\* What the source distribution has for regenerating and testing.
Sources == {"protocol-source", "fixtures", "update_protocol", "run_integration",
            "verify_distributions"}

Obsolete == {"protobuf module", "lockfile", "old protocol module"}
Schemas == {"schema"}
Development == {"protobuf", "grpcio", "datamodel-code-generator", "jsonschema",
                "types-protobuf"}

\* Requirements that begin with "pydantic": the package itself, another one,
\* and the package behind a marker that an installation does not meet.
Pydantics == {"pydantic", "pydantic-core", "pydantic for an extra"}

\* entry.endswith(suffix) of some entry, wherever it lies
Has(entries, file) == \E entry \in entries : entry.file = file

\* verify()
Verify(entries, wheel) ==
    /\ \A file \in RequiredSuffixes : Has(entries, file)
    /\ \A file \in Obsolete \cup Schemas : ~Has(entries, file)
    /\ ~wheel => \A file \in Sources : Has(entries, file)

\* The rest of main(): the requirements in the wheel's metadata.
Requirements(requires) == requires \cap Pydantics # {} /\ requires \cap Development = {}

ArchivesInit ==
    /\ wheels \in Wheels
    /\ sdists \in Sdists
    /\ verdict = "none"

Accepted ==
    /\ Cardinality(wheels) = 1 /\ Cardinality(sdists) = 1
    /\ \A wheel \in wheels : Verify(wheel.entries, TRUE) /\ Requirements(wheel.requires)
    /\ \A sdist \in sdists : Verify(sdist.entries, FALSE)

Main ==
    /\ verdict = "none"
    /\ verdict' = IF Accepted THEN "verified" ELSE "rejected"
    /\ UNCHANGED <<wheels, sdists>>

ArchivesSpec == ArchivesInit /\ [][Main]_archiveVars

-----------------------------------------------------------------------------
(* What an import of the package needs.  The standard library is always    *)
(* there and left out.                                                     *)

Libraries == {"pydantic", "typing_extensions", "websocket"}

InitImports == {"client", "events", "models", "rpc"}
ClientImports == {"_api", "events", "models", "rpc"}
EventsImports == {"websocket", "_json", "models", "rpc"}
RpcImports == {"websocket", "pydantic", "_api", "_json", "models"}
ApiImports == {"models"}
ModelsImports == {"pydantic", "_generated", "protocol"}
ProtocolImports == {"pydantic", "typing_extensions"}

Imports ==
    [__init__ |-> InitImports, client |-> ClientImports, events |-> EventsImports,
     rpc |-> RpcImports, _api |-> ApiImports, models |-> ModelsImports,
     protocol |-> ProtocolImports, _generated |-> {}, _json |-> {}]

\* What "import livesplit_bridge" needs: the smallest set closed under imports.
Needed ==
    LET Modules == DOMAIN Imports \cup Libraries
        Closed(S) == \A m \in S \cap DOMAIN Imports : Imports[m] \subseteq S
    IN {m \in Modules : \A S \in SUBSET Modules : "__init__" \in S /\ Closed(S) => m \in S}

\* Which requirement installs which library.
Brings == {<<"pydantic", "pydantic">>, <<"pydantic", "typing_extensions">>,
           <<"pydantic-core", "typing_extensions">>, <<"websocket-client", "websocket">>}

Provided(requires) == {library \in Libraries : \E r \in requires : <<r, library>> \in Brings}

-----------------------------------------------------------------------------
(* Properties *)

\* What an import needs and the installed wheel does not have.
Missing(wheel) ==
    {m \in Needed : [at |-> "home", file |-> m] \notin wheel.entries} \ Provided(wheel.requires)

\* What the tool cannot miss: a file in another place counts as found, the
\* WebSocket library is not asked for, and a requirement that only begins with
\* "pydantic" passes for Pydantic and what it brings.
Unnoticed(wheel) ==
    {m \in Needed \ Libraries : Has(wheel.entries, m)}
    \cup {"websocket"}
    \cup IF wheel.requires \cap (Pydantics \ {"pydantic"}) = {}
         THEN {} ELSE {"pydantic", "typing_extensions"}

\* verify_distributions.py:28-75.  The tool does not promise that what it
\* verified can be imported; this is what it does promise.  Whatever an import
\* needs and a verified wheel does not have is in Unnoticed, the source
\* distribution has every module an import reaches, and neither has a schema
\* (README.md:299-300).
OnlyKnownGaps ==
    verdict = "verified" =>
        /\ \A wheel \in wheels :
              Missing(wheel) \subseteq Unnoticed(wheel) /\ ~Has(wheel.entries, "schema")
        /\ \A sdist \in sdists :
              /\ \A m \in Needed \ Libraries : Has(sdist.entries, m)
              /\ ~Has(sdist.entries, "schema")
=============================================================================
