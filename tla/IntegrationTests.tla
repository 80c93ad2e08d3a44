--------------------------- MODULE IntegrationTests ---------------------------
(***************************************************************************)
(* tools/run_integration.py: a checkout of the Bridge, the test host and   *)
(* the samples built from it, and the tests run against them.  All three   *)
(* outlive a run.  Any command may fail and the tool may be stopped        *)
(* between two steps; the developer changes the checkout and the pin only  *)
(* while the tool does not run.                                            *)
(***************************************************************************)
EXTENDS Naturals, PinnedSource

VARIABLES
    checkout,       \* HEAD, and whether the files of the commit are there
    host,           \* the checkout that the test host was built from last
    samples,        \* the checkout that the samples were written from last
    at,             \* the next step of the running tool, "idle" for none
    rev,            \* its "source"
    tested          \* how the last run ended, "none" once a file was changed

testVars == <<pin, checkout, host, samples, at, rev, tested>>

Checkouts == [head : Revisions, tree : {"empty", "clean", "edited"}]
Nothing == [head |-> 0, tree |-> "empty"]

TestsInit ==
    /\ pin \in Revisions
    /\ checkout = Nothing
    /\ host = Nothing
    /\ samples = Nothing
    /\ at = "idle"
    /\ rev = 0
    /\ tested = "none"

\* An existing checkout is used as it is.
Start ==
    /\ at = "idle"
    /\ at' = IF checkout = Nothing THEN "clone" ELSE "compare"
    /\ rev' = pin
    /\ tested' = "none"
    /\ UNCHANGED <<pin, checkout, host, samples>>

\* git clone --no-checkout: HEAD is the tip of the default branch.
Clone(tip) ==
    /\ at = "clone"
    /\ checkout' = [head |-> tip, tree |-> "empty"]
    /\ at' = "checkout"
    /\ UNCHANGED <<pin, host, samples, rev, tested>>

Checkout ==
    /\ at = "checkout"
    /\ checkout' = [head |-> rev, tree |-> "clean"]
    /\ at' = "compare"
    /\ UNCHANGED <<pin, host, samples, rev, tested>>

\* Seeded fault: what run_integration.py cloned itself is not looked at.
Fault_CompareHead ==
    /\ at = "compare"
    /\ at' = "host"
    /\ UNCHANGED <<pin, checkout, host, samples, rev, tested>>

CompareHead ==
    /\ at = "compare"
    /\ checkout.head = rev
    /\ at' = "host"
    /\ UNCHANGED <<pin, checkout, host, samples, rev, tested>>

\* git submodule update and dotnet build; an empty working tree has neither
\* submodules nor projects.
BuildHost ==
    /\ at = "host"
    /\ checkout.tree # "empty"
    /\ host' = checkout
    /\ at' = "samples"
    /\ UNCHANGED <<pin, checkout, samples, rev, tested>>

WriteSamples ==
    /\ at = "samples"
    /\ samples' = checkout
    /\ at' = "pytest"
    /\ UNCHANGED <<pin, checkout, host, rev, tested>>

TestsPass ==
    /\ at = "pytest"
    /\ at' = "idle"
    /\ tested' = "tested"
    /\ UNCHANGED <<pin, checkout, host, samples, rev>>

\* Another commit, a failed command or the tool killed.
TestsStopped ==
    /\ at # "idle"
    /\ at' = "idle"
    /\ tested' = "failed"
    /\ UNCHANGED <<pin, checkout, host, samples, rev>>

\* The developer moves the pin, or edits, moves or removes the checkout.
MaintainCheckout ==
    /\ at = "idle"
    /\ \/ pin' \in Revisions /\ UNCHANGED checkout
       \/ checkout' \in {c \in Checkouts : c.tree # "empty"} \cup {Nothing} /\ UNCHANGED pin
    /\ tested' = "none"
    /\ UNCHANGED <<host, samples, at, rev>>

TestsNext ==
    \/ Start
    \/ \E tip \in Revisions : Clone(tip)
    \/ Checkout \/ CompareHead \/ BuildHost \/ WriteSamples \/ TestsPass
    \/ TestsStopped
    \/ MaintainCheckout

TestsSpec == TestsInit /\ [][TestsNext]_testVars

-----------------------------------------------------------------------------
(* Properties *)

\* README.md:284-285: the real-communication tests that pass ran a host and
\* samples of one checkout at the pinned commit: never what an earlier run built,
\* nor an older checkout that is still there, nor a clone that was interrupted.
TestedIsPinned == tested = "tested" => host.head = pin /\ samples = host /\ host.tree # "empty"
=============================================================================
