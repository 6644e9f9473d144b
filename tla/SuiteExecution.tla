--------------------------- MODULE SuiteExecution ---------------------------
(***************************************************************************)
(* The Python tooling root of tools/check_test_inventory.py: the suite is  *)
(* compared with its frozen contract, runs under hooks that re-verify it   *)
(* around every part of every test, and a ledger and single-use tickets    *)
(* decide what the run may be said to have done.                           *)
(***************************************************************************)
EXTENDS Naturals, FiniteSets, Sequences

CONSTANTS
    Order,              \* the frozen runtime order: a sequence of tests
    ClassOf, ModuleOf,  \* test -> its class, class -> its module
    ClassFixtures,      \* classes that define setUpClass or tearDownClass
    ModuleFixtures,     \* modules that define setUpModule or tearDownModule
    Declared,           \* test -> kinds of skip its contract entries declare
    MaxTickets,         \* bound: tickets one test may be issued
    MaxTampering        \* bound: changes test code makes to bindings

Tests   == {Order[i] : i \in 1 .. Len(Order)}
Classes == {ClassOf[t] : t \in Tests}
Kinds   == {"decorator", "dynamic", "platform"}

SuiteAssumption ==
    /\ \A i, j \in 1 .. Len(Order) : i # j => Order[i] # Order[j]
    /\ Order # << >>
    /\ DOMAIN ClassOf = Tests /\ DOMAIN ModuleOf = Classes
    /\ Declared \in [Tests -> SUBSET Kinds]
    /\ MaxTickets \in Nat /\ MaxTampering \in Nat

VARIABLES
    holds,              \* kinds whose predicate is true on this host
    marked,             \* tests that carry a skip decorator
    sites,              \* test -> "none", "bound", "moved": its reviewed skipTest call
    pc,
    cursor,             \* runtime_cursor
    lastClass,          \* result._previousTestClass, or "none"
    classFailed, moduleFailed,  \* _classSetupFailed of each class, _moduleSetUpFailed
    success,            \* outcome.success of the running test
    tickets, held,      \* authorizer._tickets; SkipTests that test code has caught
    issued,             \* test -> tickets issued
    active, started, stopped, events, skips, bad,   \* the ledger
    rebound, refixed,   \* tests whose method, classes whose fixtures were rebound
    drift,              \* a tooling source changed on disk
    tampering,
    hooks,              \* "original" or "verified": skipTest, run, _call* of unittest
    unmarked,           \* decorators taken away for the platform skips
    verdict,            \* "none", "outcome", "accepted", "refused"
    completed, reached, broken  \* history: bodies that returned; tests that came to their
                                \* own skip; a test, part or fixture failed

facts    == <<holds, marked, sites>>
suite    == <<cursor, lastClass, classFailed, moduleFailed>>
ledger   == <<active, started, stopped, events, skips, bad>>
cards    == <<tickets, held, issued>>
bindings == <<rebound, refixed, tampering>>
adapter  == <<hooks, unmarked>>
history  == <<completed, reached, broken>>
vars == <<facts, pc, suite, success, cards, ledger, bindings, drift, adapter, verdict, history>>

None == "none"

Terminal == {"success", "skip"}
Events   == Terminal \cup {"failure", "subtest-failure", "subtest-success", "inventory-error"}

TypeOK ==
    /\ holds \subseteq Kinds /\ {marked, unmarked} \subseteq SUBSET Tests
    /\ sites \in [Tests -> {"none", "bound", "moved"}]
    /\ pc \in {"contract", "install", "next", "leave", "module", "class", "start", "setUp",
               "method", "tearDown", "cleanup", "finish", "stop", "after", "last",
               "lastModule", "judge", "close", "root", "done"}
    /\ cursor \in 1 .. Len(Order) + 1
    /\ lastClass \in Classes \cup {None}
    /\ {classFailed, refixed} \subseteq SUBSET Classes
    /\ {moduleFailed, success, bad, drift, broken} \subseteq BOOLEAN
    /\ tickets \subseteq Tests \X (1 .. MaxTickets) /\ held \subseteq Tests \X (1 .. MaxTickets)
    /\ issued \in [Tests -> 0 .. MaxTickets]
    /\ active \in Tests \cup {None}
    /\ {started, stopped, rebound, completed, reached} \subseteq SUBSET Tests
    /\ events \in [Tests -> SUBSET Events]
    /\ skips \subseteq Tests \X Kinds
    /\ tampering \in 0 .. MaxTampering
    /\ hooks \in {"original", "verified"}
    /\ verdict \in {"none", "outcome", "accepted", "refused"}

-----------------------------------------------------------------------------
(* The contract: what may and what must be skipped on this host. *)

\* _python_skip_predicates: without the publication platform every predicate that
\* depends on it is false.
Active(t) == {k \in Declared[t] \cap holds : k = "dynamic" => "platform" \notin holds}

PlatformSkips == {t \in Tests : "platform" \in Active(t)}
Skips(kind)   == {t \in Tests \ PlatformSkips : kind \in Active(t)}

\* A dynamic skip is authorised at the reviewed line of the loaded code only.
Authorized(t) == t \in Skips("dynamic") /\ sites[t] = "bound"

ContractHolds ==
    /\ \A t \in marked : "decorator" \in Declared[t]
    /\ marked \ PlatformSkips = Skips("decorator")
    /\ \A t \in Tests : sites[t] # "none" => "dynamic" \in Declared[t] /\ sites[t] = "bound"
    /\ \A t \in Skips("dynamic") : Authorized(t)
    /\ \A t \in PlatformSkips : /\ ClassOf[t] \notin ClassFixtures
                                /\ ModuleOf[ClassOf[t]] \notin ModuleFixtures

ExpectedSkips == (Skips("decorator") \X {"decorator"}) \cup (Skips("dynamic") \X {"dynamic"})
                    \cup (PlatformSkips \X {"platform"})

Init ==
    /\ holds \in SUBSET Kinds
    /\ marked \in {{}, {t \in Tests : "decorator" \in Declared[t]}}
    /\ sites \in [Tests -> {"none", "bound", "moved"}]
    /\ \A t \in Tests : sites[t] # "none" <=> "dynamic" \in Declared[t]
    /\ pc = "contract" /\ cursor = 1 /\ lastClass = None
    /\ classFailed = {} /\ moduleFailed = FALSE /\ success = TRUE
    /\ tickets = {} /\ held = {} /\ issued = [t \in Tests |-> 0]
    /\ active = None /\ started = {} /\ stopped = {} /\ bad = FALSE
    /\ events = [t \in Tests |-> {}] /\ skips = {}
    /\ rebound = {} /\ refixed = {} /\ tampering = 0 /\ drift = FALSE
    /\ hooks = "original" /\ unmarked = {} /\ verdict = "none"
    /\ completed = {} /\ reached = {} /\ broken = FALSE

-----------------------------------------------------------------------------
(* Verification, and the error that ends the run. *)

CaseIntact(t)     == t \notin rebound /\ ClassOf[t] \notin refixed
FixturesIntact(c) == c \notin refixed

\* The bindings of the tests of the class that ran last.
PreviousIntact == \A t \in Tests : ClassOf[t] = lastClass => CaseIntact(t)

\* An InventoryError leaves the suite: the run is refused once the hooks are back.
Escape == pc' = "close" /\ verdict' = "refused"

Test == Order[cursor]

Contract ==
    /\ pc = "contract"
    /\ IF ContractHolds THEN pc' = "install" /\ UNCHANGED verdict
                        ELSE pc' = "done" /\ verdict' = "refused"
    /\ UNCHANGED <<facts, suite, success, cards, ledger, bindings, drift, adapter, history>>

Install ==
    /\ pc = "install"
    /\ IF drift THEN Escape /\ UNCHANGED adapter
       ELSE /\ pc' = "next" /\ hooks' = "verified" /\ unmarked' = marked \cap PlatformSkips
            /\ UNCHANGED verdict
    /\ UNCHANGED <<facts, suite, success, cards, ledger, bindings, drift, history>>

\* The source of a tooling module changes on disk while the suite runs.
Edit ==
    /\ pc \notin {"contract", "done"} /\ ~drift
    /\ drift' = TRUE
    /\ UNCHANGED <<facts, pc, suite, success, cards, ledger, bindings, adapter, verdict, history>>

\* Test code rebinds a method or a fixture of some test, or puts it back: a patch left
\* behind or taken away.
Tamper ==
    /\ tampering < MaxTampering
    /\ \/ \E t \in Tests : rebound' \in {rebound \cup {t}, rebound \ {t}} \ {rebound}
                           /\ UNCHANGED refixed
       \/ \E c \in Classes : refixed' \in {refixed \cup {c}, refixed \ {c}} \ {refixed}
                             /\ UNCHANGED rebound
    /\ tampering' = tampering + 1

-----------------------------------------------------------------------------
(* Class and module fixtures, each between two verifications. *)

\* One fixture runs: it may raise, which is an error of the run, and it may tamper.
Fixture(raises) ==
    /\ \/ Tamper
       \/ UNCHANGED bindings
    /\ broken' = (broken \/ raises)

\* record_fixture_error
FixtureError(raises) == bad' = (bad \/ raises)

NextTest ==
    /\ pc = "next"
    /\ pc' = IF cursor > Len(Order) THEN "last" ELSE "leave"
    /\ UNCHANGED <<facts, suite, success, cards, ledger, bindings, drift, adapter, verdict,
                   history>>

\* tearDownClass of the class that is left.
LeaveClass ==
    /\ pc \in {"leave", "last"}
    /\ UNCHANGED <<facts, suite, success, cards, active, started, stopped, events, skips, drift,
                   adapter>>
    /\ LET leaving == /\ lastClass # None
                      /\ IF pc = "last" THEN TRUE ELSE lastClass # ClassOf[Test]
                      /\ lastClass \notin classFailed /\ ~moduleFailed
           runs    == leaving /\ lastClass \in ClassFixtures
           sound   == /\ ~drift /\ PreviousIntact
                      /\ pc = "leave" => FixturesIntact(ClassOf[Test])
       IN IF ~sound
          THEN Escape /\ UNCHANGED <<bindings, bad, history>>
          ELSE \E raises \in {FALSE} \cup (IF runs THEN {TRUE} ELSE {}) :
                  /\ IF runs THEN Fixture(raises) ELSE UNCHANGED <<bindings, broken>>
                  /\ FixtureError(raises)
                  /\ IF PreviousIntact' /\ (pc = "leave" => ClassOf[Test] \notin refixed')
                     THEN /\ pc' = IF pc = "leave" THEN "module" ELSE "lastModule"
                          /\ UNCHANGED verdict
                     ELSE Escape
                  /\ UNCHANGED <<completed, reached>>

\* tearDownModule of the module that is left, setUpModule of the one that is entered.
ModuleFixture ==
    /\ pc = "module"
    /\ LET before == IF lastClass = None THEN {} ELSE {ModuleOf[lastClass]}
           module == ModuleOf[ClassOf[Test]]
           runs   == /\ module \notin before
                     /\ \/ module \in ModuleFixtures
                        \/ before \cap ModuleFixtures # {} /\ ~moduleFailed
       IN IF drift \/ ~FixturesIntact(ClassOf[Test])
          THEN Escape /\ UNCHANGED <<bindings, bad, history, moduleFailed>>
          ELSE \E raises \in {FALSE} \cup (IF runs THEN {TRUE} ELSE {}) :
                  /\ IF runs THEN Fixture(raises) ELSE UNCHANGED <<bindings, broken>>
                  /\ FixtureError(raises)
                  /\ IF module \in before THEN UNCHANGED moduleFailed
                     ELSE moduleFailed' \in {FALSE}
                             \cup (IF raises /\ module \in ModuleFixtures THEN {TRUE} ELSE {})
                  /\ IF ClassOf[Test] \in refixed' THEN Escape
                     ELSE pc' = "class" /\ UNCHANGED verdict
                  /\ UNCHANGED <<completed, reached>>
    /\ UNCHANGED <<facts, cursor, lastClass, classFailed, success, cards, active, started,
                   stopped, events, skips, drift, adapter>>

\* setUpClass; then the test is left out when its class or module could not be set up.
ClassSetUp ==
    /\ pc = "class"
    /\ LET c      == ClassOf[Test]
           enters == lastClass # c /\ ~moduleFailed
           runs   == enters /\ c \in ClassFixtures
       IN IF drift \/ ~CaseIntact(Test)
          THEN Escape /\ UNCHANGED <<bindings, bad, history, suite>>
          ELSE \E raises \in {FALSE} \cup (IF runs THEN {TRUE} ELSE {}) :
                  /\ IF runs THEN Fixture(raises) ELSE UNCHANGED <<bindings, broken>>
                  /\ FixtureError(raises)
                  /\ classFailed' = IF raises THEN classFailed \cup {c}
                                    ELSE IF enters THEN classFailed \ {c} ELSE classFailed
                  /\ lastClass' = c
                  /\ IF Test \in rebound' \/ c \in refixed' THEN Escape /\ UNCHANGED cursor
                     ELSE /\ UNCHANGED verdict
                          /\ IF c \in classFailed' \/ moduleFailed
                             THEN cursor' = cursor + 1 /\ pc' = "next"
                             ELSE pc' = "start" /\ UNCHANGED cursor
                  /\ UNCHANGED <<completed, reached, moduleFailed>>
    /\ UNCHANGED <<facts, success, cards, active, started, stopped, events, skips, drift, adapter>>

-----------------------------------------------------------------------------
(* One test: TestCase.run under the verified _call* hooks. *)

Record(event) == events' = [events EXCEPT ![Test] = @ \cup {event}]

\* startTest; a skip decorator is an outcome of its own.
StartTest ==
    /\ pc = "start"
    /\ IF active # None \/ Test \in started \/ drift
       THEN Escape /\ UNCHANGED <<success, ledger, history>>
       ELSE /\ active' = Test /\ started' = started \cup {Test} /\ success' = TRUE
            /\ UNCHANGED <<stopped, bad, completed, broken, verdict>>
            /\ IF Test \in marked \ unmarked
               THEN /\ pc' = "stop" /\ Record("skip")
                    /\ skips' = skips \cup {<<Test, "decorator">>}
                    /\ reached' = reached \cup {Test}
               ELSE pc' = "setUp" /\ UNCHANGED <<events, skips, reached>>
    /\ UNCHANGED <<facts, suite, cards, bindings, drift, adapter>>

Parts == {"setUp", "method", "tearDown", "cleanup"}

\* setUp and method lead on only when they succeeded; tearDown follows every method.
After(part, ok) ==
    CASE part = "setUp"    -> IF ok THEN "method" ELSE "cleanup"
      [] part = "method"   -> "tearDown"
      [] part = "tearDown" -> "cleanup"
      [] part = "cleanup"  -> "finish"

InPart == /\ pc \in Parts /\ CaseIntact(Test) /\ ~drift
          /\ ~(pc = "setUp" /\ Test \in PlatformSkips)

\* The binding or a source no longer is what was frozen when a part begins or ends.
PartRefused ==
    /\ pc \in Parts /\ (~CaseIntact(Test) \/ drift)
    /\ Escape /\ Record("inventory-error")
    /\ UNCHANGED <<facts, suite, success, cards, active, started, stopped, skips, bad, bindings,
                   drift, adapter, history>>

\* token_hex: a ticket is new.
Ticket(t) == <<t, issued[t] + 1>>

\* addSkip: a ticket is good for the test it was issued to, once.
Redeems(card, t) == card \in tickets /\ card[1] = t

\* A skip reaches addSkip with the reason of a ticket.
Skipped(card, kind) ==
    IF Redeems(card, Test) /\ events[Test] \cap Terminal = {} /\ <<Test, kind>> \notin skips
    THEN /\ tickets' = tickets \ {card} /\ Record("skip") /\ skips' = skips \cup {<<Test, kind>>}
         /\ success' = FALSE /\ pc' = After(pc, FALSE)
         /\ UNCHANGED <<active, started, stopped, bad, verdict>>
    ELSE /\ Escape /\ UNCHANGED <<tickets, success, ledger>>

KindOf(t) == IF t \in PlatformSkips THEN "platform" ELSE "dynamic"

\* The hook around setUp skips a test of an absent platform before its code runs.
PlatformSkip ==
    /\ pc = "setUp" /\ Test \in PlatformSkips /\ CaseIntact(Test) /\ ~drift
    /\ Record("skip") /\ skips' = skips \cup {<<Test, "platform">>}
    /\ reached' = reached \cup {Test}
    /\ success' = FALSE /\ pc' = After("setUp", FALSE)
    /\ UNCHANGED <<facts, suite, cards, active, started, stopped, bad, bindings, drift, adapter,
                   verdict, completed, broken>>

\* self.skipTest at the reviewed line: the SkipTest is raised through, or test code
\* catches it and goes on, ticket in hand.
DynamicSkip ==
    /\ InPart /\ pc = "method" /\ Authorized(Test) /\ issued[Test] < MaxTickets
    /\ LET card == Ticket(Test) IN
          /\ issued' = [issued EXCEPT ![Test] = @ + 1]
          /\ \/ /\ tickets' = tickets \cup {card} /\ held' = held \cup {card}
                /\ UNCHANGED <<pc, verdict, success, ledger, reached>>
             \/ /\ IF events[Test] \cap Terminal = {} /\ <<Test, "dynamic">> \notin skips
                   THEN /\ Record("skip") /\ skips' = skips \cup {<<Test, "dynamic">>}
                        /\ success' = FALSE /\ pc' = After(pc, FALSE)
                        /\ UNCHANGED <<active, started, stopped, bad, verdict>>
                   ELSE Escape /\ UNCHANGED <<success, ledger>>
                /\ reached' = reached \cup {Test}
                /\ UNCHANGED <<tickets, held>>
    /\ UNCHANGED <<facts, suite, bindings, drift, adapter, completed, broken>>

\* A SkipTest caught earlier, perhaps by another test, is raised again.
ReplaySkip ==
    /\ InPart
    /\ \E card \in held :
          /\ Skipped(card, KindOf(card[1]))
          /\ reached' = reached \cup ({Test} \cap {card[1]})
    /\ UNCHANGED <<facts, suite, held, issued, bindings, drift, adapter, completed, broken>>

\* Any other skip is an InventoryError in the test's own code: it escapes, or the test
\* catches it; a skip inside a subtest has also ended the test's success.
ForeignSkip ==
    /\ InPart
    /\ \/ Escape /\ Record("inventory-error") /\ UNCHANGED success
       \/ success' \in {success, FALSE} /\ UNCHANGED <<pc, verdict, events>>
    /\ UNCHANGED <<facts, suite, cards, active, started, stopped, skips, bad, bindings, drift,
                   adapter, history>>

\* A subtest passes or fails; the test goes on.
Subtest ==
    /\ InPart /\ pc = "method"
    /\ \/ Record("subtest-success") /\ UNCHANGED <<success, bad, broken>>
       \/ Record("subtest-failure") /\ success' = FALSE /\ bad' = TRUE /\ broken' = TRUE
    /\ UNCHANGED <<facts, pc, suite, cards, active, started, stopped, skips, bindings, drift,
                   adapter, verdict, completed, reached>>

\* Test code leaves a patch, or says of its class that it could not be set up.
TamperInTest ==
    /\ InPart
    /\ \/ Tamper /\ UNCHANGED classFailed
       \/ /\ tampering < MaxTampering /\ tampering' = tampering + 1
          /\ classFailed' = classFailed \cup {ClassOf[Test]}
          /\ UNCHANGED <<rebound, refixed>>
    /\ UNCHANGED <<facts, pc, cursor, lastClass, moduleFailed, success, cards, ledger, drift,
                   adapter, verdict, history>>

\* addError and addFailure
Fails == Record("failure") /\ success' = FALSE /\ bad' = TRUE

\* The part returns or raises.
EndPart ==
    /\ InPart
    /\ \/ /\ pc' = After(pc, success)
          /\ completed' = IF pc = "method" THEN completed \cup {Test} ELSE completed
          /\ UNCHANGED <<events, success, bad, broken>>
       \/ /\ Fails /\ pc' = After(pc, FALSE)
          /\ broken' = TRUE /\ UNCHANGED completed
    /\ UNCHANGED <<facts, suite, cards, active, started, stopped, skips, bindings, drift, adapter,
                   verdict, reached>>

\* addSuccess, unless some part has already spoken for the test.
Finish ==
    /\ pc = "finish"
    /\ IF ~success
       THEN pc' = "stop" /\ UNCHANGED <<verdict, events>>
       ELSE IF events[Test] \ {"subtest-success"} # {} THEN Escape /\ UNCHANGED events
            ELSE pc' = "stop" /\ Record("success") /\ UNCHANGED verdict
    /\ UNCHANGED <<facts, suite, success, cards, active, started, stopped, skips, bad, bindings,
                   drift, adapter, history>>

\* stopTest: a test without an outcome is refused.
StopTest ==
    /\ pc = "stop"
    /\ IF events[Test] = {} THEN Escape /\ UNCHANGED <<active, stopped>>
       ELSE /\ pc' = "after" /\ active' = None /\ stopped' = stopped \cup {Test}
            /\ UNCHANGED verdict
    /\ UNCHANGED <<facts, suite, success, cards, started, events, skips, bad, bindings, drift,
                   adapter, history>>

AfterTest ==
    /\ pc = "after"
    /\ IF drift \/ ~CaseIntact(Test) THEN Escape /\ UNCHANGED cursor
       ELSE pc' = "next" /\ cursor' = cursor + 1 /\ UNCHANGED verdict
    /\ UNCHANGED <<facts, lastClass, classFailed, moduleFailed, success, cards, ledger, bindings,
                   drift, adapter, history>>

-----------------------------------------------------------------------------
(* The end of the run. *)

\* _handleModuleTearDown of the last module.
LastModule ==
    /\ pc = "lastModule"
    /\ LET module == ModuleOf[lastClass]
           runs   == module \in ModuleFixtures /\ ~moduleFailed
       IN IF drift \/ ~FixturesIntact(lastClass)
          THEN Escape /\ UNCHANGED <<bindings, bad, history>>
          ELSE \E raises \in {FALSE} \cup (IF runs THEN {TRUE} ELSE {}) :
                  /\ IF runs THEN Fixture(raises) ELSE UNCHANGED <<bindings, broken>>
                  /\ FixtureError(raises)
                  /\ IF lastClass \in refixed' THEN Escape
                     ELSE pc' = "judge" /\ UNCHANGED verdict
                  /\ UNCHANGED <<completed, reached>>
    /\ UNCHANGED <<facts, suite, success, cards, active, started, stopped, events, skips, drift,
                   adapter>>

bugTicketsNotCounted == active = None /\ started = stopped
\* require_all_tickets_consumed and outcome()
Canonical == tickets = {} /\ active = None /\ started = stopped

Judge ==
    /\ pc = "judge"
    /\ IF ~drift /\ (\A t \in Tests : CaseIntact(t)) /\ Canonical
       THEN pc' = "close" /\ verdict' = "outcome"
       ELSE Escape
    /\ UNCHANGED <<facts, suite, success, cards, ledger, bindings, drift, adapter, history>>

\* finally: unittest and the decorators are put back.
Close ==
    /\ pc = "close"
    /\ hooks' = "original" /\ unmarked' = {}
    /\ pc' = IF verdict = "outcome" THEN "root" ELSE "done"
    /\ UNCHANGED <<facts, suite, success, cards, ledger, bindings, drift, verdict, history>>

\* _run_python_tooling_root: the outcome against the inventory's expected set.
MeetsContract == stopped = Tests /\ ~bad /\ skips = ExpectedSkips

Root ==
    /\ pc = "root"
    /\ pc' = "done" /\ verdict' = IF MeetsContract THEN "accepted" ELSE "refused"
    /\ UNCHANGED <<facts, suite, success, cards, ledger, bindings, drift, adapter, history>>

Next == \/ Contract \/ Install \/ Edit \/ NextTest \/ LeaveClass \/ ModuleFixture \/ ClassSetUp
        \/ StartTest \/ PartRefused \/ PlatformSkip \/ DynamicSkip \/ ReplaySkip \/ ForeignSkip
        \/ Subtest \/ TamperInTest \/ EndPart \/ Finish \/ StopTest \/ AfterTest
        \/ LastModule \/ Judge \/ Close \/ Root

Spec == Init /\ [][Next]_vars

-----------------------------------------------------------------------------
\* An accepted run is what it says: every frozen test either ran its body to its end or
\* came itself to the skip the contract expects of it, and to no other
\* (_run_python_tooling_root, addSkip).
AcceptedIsReal ==
    verdict = "accepted" =>
        \A t \in Tests : IF \E k \in Kinds : <<t, k>> \in ExpectedSkips
                         THEN t \in reached
                         ELSE t \in completed /\ t \notin reached

\* An accepted run is spotless: no test, subtest or fixture failed anywhere in it, and no
\* rebinding is left (_PythonOutcomeLedger, _verify_python_test_bindings).
AcceptedIsSpotless == verdict = "accepted" => ~broken /\ rebound = {} /\ refixed = {}

\* A SkipTest that test code caught never survives into an accepted run
\* (require_all_tickets_consumed).
NoTicketLeft == verdict \in {"outcome", "accepted"} => tickets = {}

\* However the run ends, unittest and the decorators are as they were found, so that a
\* later run is not judged by this one's hooks (finally of _execute_python_tooling_suite).
HooksRestored == pc \in {"root", "done"} => hooks = "original" /\ unmarked = {}

\* A body begins only while its method and fixtures are the frozen ones
\* (verified_call_test_method).
RunsReviewedCode ==
    \A t \in Tests : t \in completed' \ completed => t \notin rebound /\ ClassOf[t] \notin refixed
=============================================================================
