----------------------------- MODULE Screenshots -----------------------------
(***************************************************************************)
(* ScreenshotCollector.cs and screenshots/*.py, for one device.  The agent *)
(* asks for a row and an upload URL (presign), puts the blob into object   *)
(* storage and confirms; any failure drops the capture.  A worker purges   *)
(* what is past its retention: it deletes blobs one by one and commits the *)
(* deletion of their rows once at the end.  When a capture is due is left  *)
(* open.                                                                   *)
(***************************************************************************)
EXTENDS Integers

CONSTANTS Shots,          \* bound: screenshots taken
          RetentionDays,  \* settings.retention.screenshots
          Purges,         \* bound: runs of purge_screenshots at a time
          LastShotDay,    \* bound: days
          MaxPurgeCrashes \* bound: runs that die before their commit

ASSUME ScreenshotAssumption ==
    RetentionDays \subseteq Nat /\ LastShotDay \in Nat /\ MaxPurgeCrashes \in Nat

None == -1                \* retention_until is null

VARIABLES
    shots,        \* screenshot -> its row
    blobs,        \* screenshots in object storage
    capture,      \* screenshot -> next step of the agent
    purge,        \* run -> expired rows it has read, and those it is done with
    keepDays,     \* the organization's retention
    shotDay,
    accessLog,    \* screenshots of rows of screenshot_access_log
    purgeCrashes

shotVars == <<shots, blobs, capture, purge, keepDays, shotDay, accessLog, purgeCrashes>>
server == <<purge, keepDays, shotDay, accessLog, purgeCrashes>>

Screenshot == [status: {"none", "pending", "stored", "deleted"}, until: Int]
NotTaken == [status |-> "none", until |-> None]
NoPurge == [on |-> FALSE, todo |-> {}, done |-> {}]

-----------------------------------------------------------------------------
(* The agent: presign, PUT, confirm *)

\* presign: the row is there even if the answer does not arrive.  The agent
\* makes an event id per capture, so a row is never found for it.
Presign(s) ==
    /\ capture[s] = "presign"
    /\ shots' = [shots EXCEPT ![s].status = "pending"]
    /\ capture' = [capture EXCEPT ![s] = "upload"]
    /\ UNCHANGED <<blobs, server>>

UploadBlob(s) ==
    /\ capture[s] = "upload"
    /\ blobs' = blobs \cup {s}
    /\ capture' = [capture EXCEPT ![s] = "confirm"]
    /\ UNCHANGED <<shots, server>>

\* compute_retention_until, with the setting of the day.
RetentionUntil == shotDay + keepDays

Confirm(s) ==
    /\ capture[s] = "confirm"
    /\ shots' = [shots EXCEPT ![s] = [status |-> "stored", until |-> RetentionUntil]]
    /\ capture' = [capture EXCEPT ![s] = "done"]
    /\ UNCHANGED <<blobs, server>>

\* catch: an error, a lost answer or a restart; the next one is a new capture.
DropCapture(s) ==
    /\ capture[s] # "done"
    /\ capture' = [capture EXCEPT ![s] = "done"]
    /\ UNCHANGED <<shots, blobs, server>>

\* get_signed_url: stored rows only, expired or not.
ViewShot(s) ==
    /\ shots[s].status = "stored"
    /\ accessLog' = accessLog \cup {s}
    /\ UNCHANGED <<shots, blobs, capture, purge, keepDays, shotDay, purgeCrashes>>

-----------------------------------------------------------------------------
(* purge_expired_screenshots *)

Past(until) == until # None /\ until < shotDay

\* Mutant: the last day counts as expired.
PastOrLast == {s \in Shots : shots[s].until # None /\ shots[s].until =< shotDay}

Expired == {s \in Shots : Past(shots[s].until)}

PurgeStart(r) ==
    /\ ~ purge[r].on
    /\ Expired # {}
    /\ purge' = [purge EXCEPT ![r] = [on |-> TRUE, todo |-> Expired, done |-> {}]]
    /\ UNCHANGED <<shots, blobs, capture, keepDays, shotDay, accessLog, purgeCrashes>>

\* Mutant: the row stays when its blob cannot be deleted.
DoneIfDeleted(done, s, deleted) == IF deleted THEN done \cup {s} ELSE done

\* provider.delete: an exception is ignored, the row goes all the same.
DoneWith(done, s, deleted) == done \cup {s}

PurgeOne(r, s, deleted) ==
    /\ s \in purge[r].todo
    /\ blobs' = IF deleted THEN blobs \ {s} ELSE blobs
    /\ purge' = [purge EXCEPT ![r].todo = @ \ {s}, ![r].done = DoneWith(@, s, deleted)]
    /\ UNCHANGED <<shots, capture, keepDays, shotDay, accessLog, purgeCrashes>>

\* Rows another run has deleted are no error.  A row that is gone has no until.
PurgeCommit(r) ==
    /\ purge[r].on /\ purge[r].todo = {}
    /\ shots' = [s \in Shots |-> IF s \in purge[r].done
                                 THEN [status |-> "deleted", until |-> None] ELSE shots[s]]
    /\ purge' = [purge EXCEPT ![r] = NoPurge]
    /\ UNCHANGED <<blobs, capture, keepDays, shotDay, accessLog, purgeCrashes>>

\* The worker dies: the blobs are gone, the rows are not.
PurgeCrash(r) ==
    /\ purge[r].on /\ purgeCrashes < MaxPurgeCrashes
    /\ purgeCrashes' = purgeCrashes + 1
    /\ purge' = [purge EXCEPT ![r] = NoPurge]
    /\ UNCHANGED <<shots, blobs, capture, keepDays, shotDay, accessLog>>

\* PATCH settings; rows keep the date they were given.
SetRetention(n) == /\ n # keepDays
                   /\ keepDays' = n
                   /\ UNCHANGED <<shots, blobs, capture, purge, shotDay, accessLog, purgeCrashes>>

ShotDayEnds == /\ shotDay < LastShotDay
               /\ shotDay' = shotDay + 1
               /\ UNCHANGED <<shots, blobs, capture, purge, keepDays, accessLog, purgeCrashes>>

ShotInit == /\ shots = [s \in Shots |-> NotTaken]
            /\ blobs = {}
            /\ capture = [s \in Shots |-> "presign"]
            /\ purge = [r \in Purges |-> NoPurge]
            /\ keepDays \in RetentionDays
            /\ shotDay = 0 /\ accessLog = {} /\ purgeCrashes = 0

PurgeStep(r) == PurgeCommit(r) \/ \E s \in Shots, deleted \in BOOLEAN : PurgeOne(r, s, deleted)

ShotNext ==
    \/ \E s \in Shots : Presign(s) \/ UploadBlob(s) \/ Confirm(s) \/ DropCapture(s) \/ ViewShot(s)
    \/ \E r \in Purges : PurgeStart(r) \/ PurgeStep(r) \/ PurgeCrash(r)
    \/ \E n \in RetentionDays : SetRetention(n)
    \/ ShotDayEnds

ShotSpec == ShotInit /\ [][ShotNext]_shotVars

\* Celery beat starts a run again and again, and a run ends; days pass.
PurgeFairness == \A r \in Purges : WF_shotVars(PurgeStart(r)) /\ WF_shotVars(PurgeStep(r))
ShotFairness == WF_shotVars(ShotDayEnds) /\ PurgeFairness

-----------------------------------------------------------------------------
(* Properties *)

\* Until its retention is over a stored screenshot can be viewed: its blob is
\* there, though runs overlap, die between blobs and rows, or the retention
\* is changed.
StoredCanBeViewed ==
    \A s \in Shots : shots[s].status = "stored" /\ ~ Past(shots[s].until) => s \in blobs

\* Every stored screenshot whose retention ends is purged, also when object
\* storage refuses to delete its blob or a run dies half way.
RetentionIsKept ==
    \A s \in Shots : (shots[s].status = "stored" /\ shots[s].until < LastShotDay)
                         ~> shots[s].status = "deleted"
=============================================================================
