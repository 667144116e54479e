---------------------------- MODULE MCConvergence ----------------------------
(***************************************************************************)
(* An instance for TLC of the two queues with threads that poll them, the  *)
(* ingestion queue and stage 1 of district acquisition.  A behaviour is of *)
(* one of them, and half never changes.                                    *)
(***************************************************************************)
EXTENDS IngestionQueue

CONSTANTS Cases, Sources, Answers, Artifacts, Clicks, Forced, DailyLimit,
          LockOutlivesFetch, NoCase, NoSource

VARIABLES text, queue, artifact, fetcher, click, logged, spent, recent, selected, half

Acquisition == INSTANCE DistrictAcquisition
acquisitionVars == <<text, queue, artifact, fetcher, click, logged, spent, recent, selected>>

BothInit == half \in {"ingestion", "acquisition"} /\ Init /\ Acquisition!Init /\
  (half = "ingestion" => \A c \in Cases : text[c] = "targeted")

BothNext ==
  /\ half' = half
  /\ \/ half = "ingestion" /\ Next /\ UNCHANGED acquisitionVars
     \/ half = "acquisition" /\ Acquisition!Next /\ UNCHANGED vars

all == <<half, vars, acquisitionVars>>
Ingests(step) == half = "ingestion" /\ half' = half /\ step /\ UNCHANGED acquisitionVars
Acquires(step) == half = "acquisition" /\ half' = half /\ step /\ UNCHANGED vars

\* The pollers of both loop for ever (job_poller.py, acquisition_worker.py), every handler and
\* every fetch ends and time passes; an upload that began either goes on or dies.  Nothing is
\* assumed of the requests of users, nor of crashes.
BothFairness ==
  /\ \A w \in Workers : WF_all(\/ Ingests(WorkerStep(w))
                              \/ Acquires(Acquisition!Poll(w) \/ Acquisition!Persist(w)))
  /\ \A j \in JobIds : WF_all(Ingests(LockExpires(j)))
  /\ \A d \in Docs : WF_all(Ingests(UploadEnqueue(d) \/ UploadCrash(d)))
  /\ \A c \in Cases, s \in Sources :
       WF_all(Acquires(Acquisition!LockExpires(c, s))) /\ WF_all(Acquires(Acquisition!BackoffEnds(c, s)))
  /\ WF_all(Acquires(Acquisition!AttemptLeavesHour)) /\ WF_all(Acquires(Acquisition!Midnight))

BothFair == BothInit /\ [][BothNext]_all /\ BothFairness

\* Every row of the acquisition queue that was queued ends, whatever the sources answer, threads
\* die or the governor pauses (acquisition_queue.py, rate_governor.py).
AcquisitionConverges == Acquisition!AcquisitionConverges

ShortSteps == {"VALIDATE", "SPLIT", "EMBED"}
Ecourts == {"ecourts"}
SomeAnswers == {"hit", "miss", "rate_limited"}
=============================================================================
