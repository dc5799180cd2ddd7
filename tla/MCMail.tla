--------------------------------- MODULE MCMail ---------------------------------
(***************************************************************************)
(* The outbox and the email queue on small instances: the behaviours of    *)
(* this specification are the behaviours of one of the two, picked by      *)
(* `pipeline`.                                                             *)
(***************************************************************************)
EXTENDS Outbox, EmailQueue

CONSTANTS event1, run1, run2, job1, cron1, handler1

VARIABLE pipeline   \* the one whose behaviours are explored; fixed

OneEvent == {event1}
TwoRuns == {run1, run2}
OneJob == {job1}
OneCron == {cron1}
OneHandler == {handler1}

MailInit ==
    /\ pipeline \in {"outbox", "queue"}
    /\ OutboxInit /\ EmailInit

MailNext ==
    \/ pipeline = "outbox" /\ OutboxNext /\ UNCHANGED <<pipeline, emailVars>>
    \/ pipeline = "queue" /\ EmailNext /\ UNCHANGED <<pipeline, outboxVars>>

\* OutboxFairness and EmailFairness, each for its own pipeline: an idle cron could
\* always start another invocation.
MailSpec ==
    /\ MailInit /\ [][MailNext]_<<pipeline, outboxVars, emailVars>>
    /\ \A r \in Runs : WF_outboxVars(pipeline = "outbox" /\ DrainStep(r))
    /\ \A c \in Codes : WF_outboxVars(CodeStep(c))
    /\ \A e \in Events : WF_outboxVars(Tick(e))
    /\ WF_outboxVars(LeaseExpires)
    /\ \A j \in Jobs : WF_emailVars(PushPointer(j))
    /\ \A w \in Workers : WF_emailVars(pipeline = "queue" /\ WorkerStep(w))
    /\ \A e \in Entry : WF_emailVars(AgeEntry(e))

\* Every variable of the two has its type.
MailTypeOK == OutboxTypeOK /\ EmailTypeOK
=============================================================================
