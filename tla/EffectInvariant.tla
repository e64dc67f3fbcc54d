--------------------------- MODULE EffectInvariant ---------------------------
(***************************************************************************)
(* The inductive invariant of the supervised effect lifecycle: what every  *)
(* handler may rely on between its load and its save.  The safety          *)
(* properties of EffectLifecycle are not inductive: each of them needs to  *)
(* know that what a host holds in its hands is still what the store holds. *)
(***************************************************************************)
EXTENDS EffectLifecycle

\* The steps in which a host has a current effect.
Handling == {"proposing", "proposed", "authorizing", "authorized",
             "claimed", "started", "calling", "finished",
             "reconciling", "reconciled"}

HandlersHaveAnEffect ==
    \A h \in Hosts : step[h] \in Handling => current[h] \in Effects

ControllersOnly ==
    \A h \in Hosts :
        step[h] \in {"authorizing", "recovering", "reconciling"}
            => h \in Controllers

AuthorizationIsCurrent ==
    \A h \in Hosts :
        step[h] = "authorizing" =>
            /\ effects[current[h]] = held[h][current[h]]
            /\ Authorizable(held[h][current[h]])

\* Including AnswersAreRecordable: the attempt is the host's own, and the
\* external operation is exactly as far as the host's step says.
ExecutionIsCurrent ==
    \A h \in Hosts :
        step[h] \in Executing =>
            LET r == held[h][current[h]] IN
            /\ effects[current[h]].status = "RUNNING"
            /\ effects[current[h]].exec = r.exec
            /\ effects[current[h]].attempts = r.attempts
            /\ r.exec \in Execs
            /\ owner[r.exec] = current[h]
            /\ IF step[h] = "calling"
               THEN calls[r.exec] \in {"inflight", "ok", "error"}
               ELSE calls[r.exec] = "claimed"

OneExecutorPerEffect ==
    \A g, h \in Hosts :
        /\ step[g] \in Executing
        /\ step[h] \in Executing
        /\ current[g] = current[h]
        => g = h

RecoveryIsCurrent ==
    \A h \in Hosts : \A e \in Effects :
        step[h] = "recovering" /\ held[h][e].status = "RUNNING" =>
            /\ effects[e] = held[h][e]
            /\ \A g \in Hosts : step[g] \in Executing => current[g] # e

ReconciliationIsCurrent ==
    \A h \in Hosts :
        step[h] = "reconciling" =>
            LET e == current[h] IN
            /\ effects[e].status = "UNKNOWN"
            /\ held[h][e].exec = effects[e].exec
            /\ held[h][e].attempts = effects[e].attempts
            /\ held[h][e].status = Outcome(effects[e].exec)
            /\ calls[effects[e].exec] # "inflight"

UnresolvedNamesItsAttempt ==
    \A e \in Effects :
        effects[e].status \in {"RUNNING", "UNKNOWN"} =>
            /\ effects[e].exec \in Execs
            /\ owner[effects[e].exec] = e
            /\ calls[effects[e].exec] # "unused"

InFlightIsUnresolved ==
    \A x \in Execs :
        calls[x] = "inflight" =>
            /\ owner[x] \in Effects
            /\ effects[owner[x]].exec = x
            /\ effects[owner[x]].status \in {"RUNNING", "UNKNOWN"}

TypeInv == TypeOK /\ HandlersHaveAnEffect

IInv ==
    /\ TypeInv
    /\ OneRecordPerKey
    /\ ControllersOnly
    /\ AuthorizationIsCurrent
    /\ ExecutionIsCurrent
    /\ OneExecutorPerEffect
    /\ RecoveryIsCurrent
    /\ ReconciliationIsCurrent
    /\ UnresolvedNamesItsAttempt
    /\ InFlightIsUnresolved
    /\ RecordedSuccessIsReal

\* The executions that were drawn for an effect.
Drawn(e) == {x \in Execs : owner[x] = e}

\* A record counts every execution that was ever drawn for it: no save brings
\* an older count back.  Inductive together with IInv.
AttemptsAreCounted ==
    \A e \in Effects :
        /\ effects[e].attempts <= Budget
        /\ IsFiniteSet(Drawn(e))
        /\ Cardinality(Drawn(e)) <= effects[e].attempts
        /\ effects[e].status = "ABSENT" => Drawn(e) = {}

\* Between its load and its save no handler of a supervised deployment is
\* overtaken: authorization, recovery, reconciliation and finalization write
\* over the very record they have read.
HandlersAreNeverOvertaken == Supervised => IInv

-----------------------------------------------------------------------------
(* What holds in every deployment, also where hosts overtake each other.    *)

\* An executor has an execution of its own, which nobody else will invoke; what
\* a host is about to save is the outcome of an execution or the change of a
\* record that exists.
HandIsSound(h) ==
    LET r == held[h][current[h]] IN
    /\ step[h] \in Executing =>
          /\ r.exec \in Execs
          /\ IF step[h] = "calling" THEN calls[r.exec] # "unused"
                                    ELSE calls[r.exec] = "claimed"
    /\ step[h] = "reconciling" =>
          /\ r.status \in {"SUCCEEDED", "FAILED"}
          /\ r.status = "SUCCEEDED" => r.exec \in Execs /\ calls[r.exec] = "ok"
    /\ step[h] \in {"authorizing", "reconciling"} =>
          effects[current[h]].status # "ABSENT"
    /\ \A e \in Effects : step[h] = "recovering" /\ held[h][e].status = "RUNNING" =>
          effects[e].status # "ABSENT" /\ ~AtomicRecovery

ExecutionsAreDistinct ==
    \A g, h \in Hosts :
        /\ step[g] \in Executing
        /\ step[h] \in Executing
        /\ held[g][current[g]].exec = held[h][current[h]].exec
        => g = h

ContendedInv ==
    /\ TypeInv
    /\ \A h \in Hosts : HandIsSound(h)
    /\ ExecutionsAreDistinct
    /\ RecordedSuccessIsReal
    /\ UniqueKeys => OneRecordPerKey

=============================================================================
