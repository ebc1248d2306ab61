---------------------------- MODULE EjbTestRunner ----------------------------
(***************************************************************************)
(* The JUnit-in-the-server harness of jboss_example (EJBTestCase.java and  *)
(* EJBTestRunnerBean.java).  The client asks a session bean to run one     *)
(* test; the bean runs setUpEJB, the test and tearDownEJB, each in a user  *)
(* transaction of its own, and sends back at most one exception.           *)
(*                                                                         *)
(* The transaction manager, the container and the test class are external: *)
(* a body may throw, may complete the transaction or may mark it for       *)
(* rollback, and calls to the transaction manager may fail.                *)
(***************************************************************************)

CONSTANT TMFaults   \* may calls to the transaction manager fail?

VARIABLES
    pc,         \* the next step of the call in progress
    phase,      \* "setUp", "run" or "tearDown"
    tx,         \* the thread's transaction: "none", "active" or "marked"
    body,       \* what each body did: "no" (not called), "ok" or "threw"
    exc,        \* the exception leaving the current phase
    exception,  \* the local variable of run()
    inflight,   \* an unchecked exception held while the finally block runs
    thrown,     \* what run() threw to the client
    outcome     \* the client's verdict: "none", "pass", "failure", "error"

vars == <<pc, phase, tx, body, exc, exception, inflight, thrown, outcome>>

Phases == {"setUp", "run", "tearDown"}
NoExc == [of |-> "none", kind |-> "none"]

(* What the wrapped throwable of a RemoteTestException is ("assert": an    *)
(* AssertionFailedError, "error": another throwable of the test, "tx": one *)
(* of the transaction manager), or an "unchecked" exception not wrapped.   *)
Exc(p, k) == [of |-> p, kind |-> k]
Wrapped(e) == e.kind \in {"assert", "error", "tx"}

Init ==
    /\ pc = "create" /\ phase = "setUp" /\ tx = "none"
    /\ body = [p \in Phases |-> "no"]
    /\ exc = NoExc /\ exception = NoExc /\ inflight = NoExc /\ thrown = NoExc
    /\ outcome = "none"

(* runBare on the client: look the home up and create a runner.  A failure *)
(* leaves testRunner null, so there is nothing to remove.                  *)
getEJBTestRunner ==
    /\ pc = "create"
    /\ \/ pc' = "bindings" /\ outcome' = outcome
       \/ pc' = "done" /\ outcome' = "error"
    /\ UNCHANGED <<phase, tx, body, exc, exception, inflight, thrown>>

(* Without properties the bean first lists java:comp/env, which may fail. *)
ListBindings ==
    /\ pc = "bindings"
    /\ \/ pc' = "instance" /\ thrown' = thrown
       \/ pc' = "returned" /\ thrown' = Exc("bindings", "error")
    /\ UNCHANGED <<phase, tx, body, exc, exception, inflight, outcome>>

(* The test class is loaded and instantiated, or an EJBException thrown. *)
getTestInstance ==
    /\ pc = "instance"
    /\ \/ pc' = "begin" /\ thrown' = thrown
       \/ pc' = "returned" /\ thrown' = Exc("instance", "unchecked")
    /\ UNCHANGED <<phase, tx, body, exc, exception, inflight, outcome>>

(* begin() fails inside an open transaction, and may fail outside one. *)
Begin ==
    /\ pc = "begin"
    /\ \/ tx = "none" /\ tx' = "active" /\ pc' = "body" /\ exc' = NoExc
       \/ /\ tx # "none" \/ TMFaults
          /\ pc' = "rollback" /\ exc' = Exc(phase, "tx") /\ tx' = tx
    /\ UNCHANGED <<phase, body, exception, inflight, thrown, outcome>>

Body ==
    /\ pc = "body"
    /\ tx' \in {"none", "active", "marked"}
    /\ \/ /\ body' = [body EXCEPT ![phase] = "ok"]
          /\ pc' = "commit" /\ exc' = exc
       \/ /\ body' = [body EXCEPT ![phase] = "threw"]
          /\ \E k \in {"assert", "error"} : exc' = Exc(phase, k)
          /\ pc' = "rollback"
    /\ UNCHANGED <<phase, exception, inflight, thrown, outcome>>

(* Only an active transaction is committed; one that is marked for         *)
(* rollback is left as it is.                                              *)
Commit ==
    /\ pc = "commit"
    /\ \/ tx # "active" /\ pc' = "end" /\ UNCHANGED <<tx, exc>>
       \/ tx = "active" /\ tx' = "none" /\ pc' = "end" /\ exc' = exc
       \/ /\ TMFaults /\ tx = "active" /\ tx' \in {"none", "active"}
          /\ pc' = "rollback" /\ exc' = Exc(phase, "tx")
    /\ UNCHANGED <<phase, body, exception, inflight, thrown, outcome>>

(* rollback(): a SystemException is swallowed, but without a transaction   *)
(* it throws an IllegalStateException, which is not.                       *)
Rollback ==
    /\ pc = "rollback"
    /\ pc' = "end"
    /\ \/ tx = "none" /\ tx' = tx /\ exc' = Exc(phase, "unchecked")
       \/ tx # "none" /\ tx' = "none" /\ exc' = exc
       \/ TMFaults /\ tx # "none" /\ tx' = tx /\ exc' = exc
    /\ UNCHANGED <<phase, body, exception, inflight, thrown, outcome>>

SetUpEnds ==
    /\ pc = "end" /\ phase = "setUp"
    /\ \/ exc = NoExc /\ phase' = "run" /\ pc' = "begin" /\ thrown' = thrown
       \/ exc # NoExc /\ pc' = "returned" /\ thrown' = exc /\ phase' = phase
    /\ UNCHANGED <<tx, body, exc, exception, inflight, outcome>>

(* Mutant: the handler drops what the test threw. *)
RunEnds_Drop ==
    /\ pc = "end" /\ phase = "run"
    /\ inflight' = IF Wrapped(exc) THEN NoExc ELSE exc
    /\ phase' = "tearDown" /\ pc' = "begin"
    /\ UNCHANGED <<tx, body, exc, exception, thrown, outcome>>

(* catch (RemoteTestException), then the finally block. *)
RunEnds ==
    /\ pc = "end" /\ phase = "run"
    /\ exception' = IF Wrapped(exc) THEN exc ELSE NoExc
    /\ inflight' = IF Wrapped(exc) THEN NoExc ELSE exc
    /\ phase' = "tearDown" /\ pc' = "begin"
    /\ UNCHANGED <<tx, body, exc, thrown, outcome>>

(* The finally block: tearDown's RemoteTestException replaces exception    *)
(* only if that is not null; an unchecked one leaves the block at once.    *)
TearDownEnds ==
    /\ pc = "end" /\ phase = "tearDown"
    /\ exception' = IF Wrapped(exc) /\ exception # NoExc THEN exc ELSE exception
    /\ thrown' = CASE exc.kind = "unchecked" -> exc
                   [] exc.kind # "unchecked" /\ exception' # NoExc -> exception'
                   [] OTHER -> inflight
    /\ pc' = "returned"
    /\ UNCHANGED <<phase, tx, body, exc, inflight, outcome>>

(* Back in runBare: a remote AssertionFailedError is rethrown as one, so   *)
(* that JUnit counts a failure; everything else is an error.               *)
ClientCatch ==
    /\ pc = "returned"
    /\ outcome' = CASE thrown = NoExc -> "pass"
                    [] thrown.kind = "assert" -> "failure"
                    [] OTHER -> "error"
    /\ pc' = "remove"
    /\ UNCHANGED <<phase, tx, body, exc, exception, inflight, thrown>>

(* The finally block of runBare; what remove() throws replaces the rest. *)
Remove ==
    /\ pc = "remove"
    /\ outcome' \in {outcome, "error"}
    /\ pc' = "done"
    /\ UNCHANGED <<phase, tx, body, exc, exception, inflight, thrown>>

Next ==
    \/ getEJBTestRunner \/ ListBindings \/ getTestInstance
    \/ Begin \/ Body \/ Commit \/ Rollback \/ SetUpEnds \/ RunEnds \/ TearDownEnds \/ ClientCatch \/ Remove

Spec == Init /\ [][Next]_vars

-----------------------------------------------------------------------------
(* Properties *)

(* A test is reported as passed only if its set-up and the test itself were  *)
(* called and neither threw, whatever the transactions around them did: a    *)
(* phase that could not begin its transaction is never taken for a success.  *)
(* JUnit's distinction survives the remote call: a failure (not an error) is *)
(* reported only when one of the three bodies really threw, and the verdict  *)
(* carries the assertion of that very body.                                  *)
VerdictRight ==
    /\ outcome = "pass" => body["setUp"] = "ok" /\ body["run"] = "ok"
    /\ outcome = "failure" =>
          /\ thrown.of \in Phases /\ thrown.kind = "assert"
          /\ body[thrown.of] = "threw"

(* EJBTestRunnerBean.java:100, "favor the run exception if one was thrown":  *)
(* when the test threw a RemoteTestException, that one is what run() throws. *)
FavoursRun ==
    pc = "returned" /\ phase = "tearDown" /\ body["run"] = "threw"
        /\ thrown # NoExc /\ Wrapped(thrown) => thrown.of = "run"
=============================================================================
