----------------------------- MODULE TimeSystem -----------------------------
(***************************************************************************)
(* The scaled clock of the agents (scheduler/time_system.py), the anchor   *)
(* it keeps in the management database (db_client.py), the projection of   *)
(* that anchor by the management backend (short_term_memory/clock.py) and  *)
(* the alignment with the stored memories (memory/service.py).             *)
(*                                                                         *)
(* Every method holds the lock of the singleton, so it is one action.  The *)
(* real clock may be set back, the process may end at any time, and a read *)
(* or a write of the anchor may fail, which the code only logs.  While the *)
(* process is down its variables are kept as history; Start does not read  *)
(* them.  The health check of the container creates a clock in a process   *)
(* of its own, which reads the anchor and writes it back.                  *)
(***************************************************************************)
EXTENDS Integers

CONSTANTS
  Scales,        (* values of SCHEDULER_TIME_SCALE                         *)
  Offsets,       (* arguments of set_offset                                *)
  MaxClock,      (* bound: the real clock                                  *)
  MaxStarts,     (* bound: starts of the process                           *)
  MaxChanges,    (* bound: changes of the time line and of its scale       *)
  MaxMishaps     (* bound: failed reads and writes of the anchor, times    *)
                 (* the real clock is set back, and health checks          *)

ASSUME TimeAssumption ==
  /\ Scales \subseteq Nat \ {0} /\ 1 \in Scales
  /\ Offsets \subseteq Int
  /\ MaxClock \in Nat /\ MaxStarts \in Nat /\ MaxChanges \in Nat
  /\ MaxMishaps \in Nat

VARIABLES
  clock,       (* time.time()                                              *)
  configured,  (* SCHEDULER_TIME_SCALE in the system configuration         *)
  anchor,      (* the row of scheduler_time_state                          *)
  latestLogin, (* the largest last_login_timestamp                         *)
  records,     (* the largest time stamp of the stored memories            *)
  up,          (* the process runs                                         *)
  scale,       (* _scale                                                   *)
  offset,      (* _offset                                                  *)
  elapsed,     (* _elapsed_scaled                                          *)
  paused,      (* _paused                                                  *)
  last,        (* _last_update_time                                        *)
  probe,       (* the anchor a health check is about to write              *)
  aligned,     (* MemoryService exists; history: and no reset since        *)
  seen,        (* history: the last time the time line was read            *)
  intact,      (* history: the anchor is up to date, the clock not set back*)
  fresh,       (* history: what the health check writes is up to date      *)
  starts, changes, mishaps  (* counters of what the bounds limit           *)

line    == <<scale, offset, elapsed, paused, last>>
probing == <<probe, fresh>>
stored  == <<anchor, latestLogin, records, configured, probing>>
bounded == <<starts, changes, mishaps>>

vars == <<clock, stored, up, line, aligned, seen, intact, bounded>>

-----------------------------------------------------------------------------
Larger(x, y) == IF x >= y THEN x ELSE y

NoAnchor == [exists |-> FALSE, scaled |-> 0, real |-> 0, scale |-> 1, offset |-> 0,
             paused |-> FALSE]

\* Mutation of Elapsed: a real clock that was set back runs the line backwards.
ElapsedSigned == IF paused THEN elapsed ELSE elapsed + (clock - last) * scale

\* _update_elapsed_scaled
Elapsed == IF paused THEN elapsed ELSE elapsed + Larger(0, clock - last) * scale

LastUpdate == IF paused THEN last ELSE Larger(clock, last)

\* What get_scaled_timestamp returns.
Now == Elapsed + offset

\* project_scheduler_timestamp
Projection(a) ==
  IF a.paused THEN a.scaled ELSE a.scaled + Larger(0, clock - a.real) * a.scale

\* Mutation of Anchored: the anchor is stamped with the real clock.
AnchoredAtClock ==
  [exists |-> TRUE, scaled |-> elapsed' + offset', real |-> clock,
   scale |-> scale', offset |-> offset', paused |-> paused']

Anchored ==
  [exists |-> TRUE, scaled |-> elapsed' + offset', real |-> last',
   scale |-> scale', offset |-> offset', paused |-> paused']

\* _persist_state_locked: a failed write is only logged.  What a health check
\* read before is not up to date any more.
Persist(failuresBefore) ==
  /\ \/ /\ anchor' = Anchored
        /\ intact' = TRUE
        /\ mishaps' = failuresBefore
     \/ /\ failuresBefore < MaxMishaps
        /\ mishaps' = failuresBefore + 1
        /\ intact' = FALSE
        /\ UNCHANGED anchor
  /\ fresh' = FALSE
  /\ UNCHANGED probe

\* load_time_scale_from_db: a failed read looks like the real pace.
ScaleRead == {configured, 1}

Change == changes < MaxChanges /\ changes' = changes + 1

-----------------------------------------------------------------------------
(* The process.                                                            *)

\* Mutation of Resumed: the time the process was down passes at the scale
\* that is configured now.
ResumedAtConfigured(a) ==
  a.scaled + (IF a.paused THEN 0 ELSE Larger(0, clock - a.real) * configured)

\* Where the time line goes on after a restart.
Resumed(a) == a.scaled + (IF a.paused THEN 0 ELSE Larger(0, clock - a.real) * a.scale)

\* TimeSystem.__init__ with the anchor that was read, or with none: then the
\* line starts at the latest login of an agent.
StartFrom(a) ==
  /\ scale' \in ScaleRead
  /\ last' = clock
  /\ offset' = IF a.exists THEN a.offset ELSE 0
  /\ paused' = (a.exists /\ a.paused)
  /\ elapsed' = IF a.exists THEN Resumed(a) - a.offset ELSE latestLogin

Start ==
  /\ ~up
  /\ starts < MaxStarts
  /\ starts' = starts + 1
  /\ up' = TRUE
  /\ aligned' = FALSE
  /\ \/ StartFrom(anchor) /\ Persist(mishaps)
     \/ mishaps < MaxMishaps /\ StartFrom(NoAnchor) /\ Persist(mishaps + 1)
  /\ seen' = elapsed' + offset'
  /\ UNCHANGED <<clock, configured, latestLogin, records, changes>>

\* The process ends.
Exit ==
  /\ up
  /\ up' = FALSE
  /\ UNCHANGED <<clock, stored, line, aligned, seen, intact, bounded>>

\* get_scaled_timestamp, get_scaled_time
Read ==
  /\ up
  /\ elapsed' = Elapsed
  /\ last' = LastUpdate
  /\ seen' = Now
  /\ UNCHANGED <<scale, offset, paused>>

ReadTime ==
  /\ Read
  /\ UNCHANGED <<clock, stored, up, aligned, intact, bounded>>

\* record_agent_login stores the time the scheduler read.
RecordLogin ==
  /\ Read
  /\ latestLogin' = Larger(latestLogin, Now)
  /\ UNCHANGED <<clock, anchor, records, configured, probing, up, aligned, intact, bounded>>

\* MemoryChunk.create, saved by write_memory
WriteMemory ==
  /\ Read
  /\ aligned
  /\ records' = Larger(records, Now)
  /\ UNCHANGED <<clock, anchor, latestLogin, configured, probing, up, aligned, intact, bounded>>

\* Mutation of OpenMemory: the records are not looked at.
OpenMemoryAsIs ==
  /\ up
  /\ ~aligned
  /\ aligned' = TRUE
  /\ Read
  /\ UNCHANGED <<clock, stored, up, intact, bounded>>

\* MemoryService.__init__: ensure_minimum_timestamp of the latest record.
OpenMemory ==
  /\ up
  /\ ~aligned
  /\ aligned' = TRUE
  /\ last' = LastUpdate
  /\ elapsed' = Larger(Elapsed, records - offset)
  /\ UNCHANGED <<scale, offset, paused>>
  /\ seen' = elapsed' + offset
  /\ IF Now < records THEN Persist(mishaps) ELSE UNCHANGED <<anchor, intact, mishaps, probing>>
  /\ UNCHANGED <<clock, configured, latestLogin, records, up, starts, changes>>

-----------------------------------------------------------------------------
(* Changes of the time line.                                               *)

\* Mutation of ReloadScale: what has passed is counted at the new scale.
ReloadScaleFirst ==
  /\ up
  /\ Change
  /\ scale' \in ScaleRead
  /\ UNCHANGED <<elapsed, last, offset, paused>>
  /\ Persist(mishaps)
  /\ seen' = seen
  /\ UNCHANGED <<clock, configured, latestLogin, records, up, aligned, starts>>

\* reload_time_scale: set_scale of the configured scale.
ReloadScale ==
  /\ up
  /\ Change
  /\ scale' \in ScaleRead
  /\ elapsed' = Elapsed
  /\ last' = LastUpdate
  /\ UNCHANGED <<offset, paused>>
  /\ Persist(mishaps)
  /\ seen' = Now
  /\ UNCHANGED <<clock, configured, latestLogin, records, up, aligned, starts>>

\* An administrator saves the system configuration.
EditScale(s) ==
  /\ Change
  /\ configured' = s
  /\ UNCHANGED <<clock, anchor, latestLogin, records, probing, up, line, aligned, seen,
                 intact, starts, mishaps>>

SetOffset(o) ==
  /\ up
  /\ Change
  /\ elapsed' = Elapsed
  /\ last' = LastUpdate
  /\ offset' = o
  /\ UNCHANGED <<scale, paused>>
  /\ Persist(mishaps)
  /\ seen' = elapsed' + o
  /\ aligned' = FALSE
  /\ UNCHANGED <<clock, configured, latestLogin, records, up, starts>>

Pause ==
  /\ up
  /\ Change
  /\ elapsed' = Elapsed
  /\ last' = LastUpdate
  /\ paused' = TRUE
  /\ UNCHANGED <<scale, offset>>
  /\ Persist(mishaps)
  /\ seen' = Now
  /\ UNCHANGED <<clock, configured, latestLogin, records, up, aligned, starts>>

Resume ==
  /\ up
  /\ paused
  /\ Change
  /\ paused' = FALSE
  /\ last' = clock
  /\ UNCHANGED <<scale, offset, elapsed>>
  /\ Persist(mishaps)
  /\ UNCHANGED <<clock, configured, latestLogin, records, up, aligned, seen, starts>>

\* advance_time
Advance ==
  /\ up
  /\ Change
  /\ elapsed' = Elapsed + 1
  /\ last' = LastUpdate
  /\ UNCHANGED <<scale, offset, paused>>
  /\ Persist(mishaps)
  /\ seen' = elapsed' + offset
  /\ UNCHANGED <<clock, configured, latestLogin, records, up, aligned, starts>>

Reset ==
  /\ up
  /\ Change
  /\ elapsed' = 0
  /\ last' = clock
  /\ paused' = FALSE
  /\ UNCHANGED <<scale, offset>>
  /\ Persist(mishaps)
  /\ seen' = offset
  /\ aligned' = FALSE
  /\ UNCHANGED <<clock, configured, latestLogin, records, up, starts>>

-----------------------------------------------------------------------------
(* The health check of the container.                                      *)

\* The anchor TimeSystem.__init__ writes when it found anchor a and scale s.
Restarted(a, s) ==
  [exists |-> TRUE, real |-> clock, scale |-> s,
   scaled |-> IF a.exists THEN Resumed(a) ELSE latestLogin,
   offset |-> IF a.exists THEN a.offset ELSE 0,
   paused |-> a.exists /\ a.paused]

\* TimeSystem.__init__ in the process of a health check.
ProbeReads ==
  /\ ~probe.exists
  /\ mishaps < MaxMishaps
  /\ mishaps' = mishaps + 1
  /\ \E s \in ScaleRead :
       \/ /\ probe' = Restarted(anchor, s)
          /\ fresh' = (intact /\ s = scale /\ anchor.real <= clock)
       \/ /\ probe' = Restarted(NoAnchor, s)
          /\ fresh' = FALSE
  /\ UNCHANGED <<clock, anchor, latestLogin, records, configured, up, line, aligned,
                 seen, intact, starts, changes>>

\* It writes the anchor back, whatever the agents wrote meanwhile, and ends.
ProbePersists ==
  /\ probe.exists
  /\ probe' = NoAnchor
  /\ fresh' = FALSE
  /\ \/ /\ anchor' = probe
        /\ intact' = fresh
        /\ UNCHANGED mishaps
     \/ /\ mishaps < MaxMishaps
        /\ mishaps' = mishaps + 1
        /\ UNCHANGED <<anchor, intact>>
  /\ UNCHANGED <<clock, latestLogin, records, configured, up, line, aligned, seen,
                 starts, changes>>

-----------------------------------------------------------------------------
(* The real clock.                                                         *)

Tick ==
  /\ clock < MaxClock
  /\ clock' = clock + 1
  /\ UNCHANGED <<stored, up, line, aligned, seen, intact, bounded>>

SetBack ==
  /\ mishaps < MaxMishaps
  /\ mishaps' = mishaps + 1
  /\ \E t \in 0..(clock - 1) : clock' = t
  /\ intact' = FALSE
  /\ fresh' = FALSE
  /\ UNCHANGED <<anchor, latestLogin, records, configured, probe, up, line, aligned, seen,
                 starts, changes>>

-----------------------------------------------------------------------------
Init ==
  /\ clock = 0
  /\ configured \in Scales
  /\ anchor = NoAnchor
  /\ latestLogin = 0
  /\ records = 0
  /\ up = FALSE
  /\ scale = configured
  /\ offset = 0
  /\ elapsed = 0
  /\ paused = TRUE
  /\ last = 0
  /\ aligned = FALSE
  /\ seen = 0
  /\ intact = FALSE
  /\ probe = NoAnchor
  /\ fresh = FALSE
  /\ starts = 0 /\ changes = 0 /\ mishaps = 0

Jump == Reset \/ \E o \in Offsets : SetOffset(o)

Next ==
  \/ Start \/ Exit
  \/ ReadTime \/ RecordLogin \/ WriteMemory \/ OpenMemory
  \/ ReloadScale \/ Pause \/ Resume \/ Advance \/ Jump
  \/ \E s \in Scales : EditScale(s)
  \/ ProbeReads \/ ProbePersists
  \/ Tick \/ SetBack

Spec == Init /\ [][Next]_vars

-----------------------------------------------------------------------------
(* Properties.                                                             *)

AnchorType ==
  [exists: BOOLEAN, scaled: Int, real: Nat, scale: Scales, offset: Int, paused: BOOLEAN]

AnchorOK(a) == a \in AnchorType /\ a.scaled >= a.offset

TypeOK ==
  /\ clock \in Nat
  /\ configured \in Scales
  /\ AnchorOK(anchor) /\ AnchorOK(probe)
  /\ latestLogin \in Nat
  /\ records \in Nat
  /\ up \in BOOLEAN
  /\ scale \in Scales
  /\ offset \in Int
  /\ elapsed \in Nat
  /\ paused \in BOOLEAN
  /\ last \in Nat
  /\ aligned \in BOOLEAN
  /\ seen \in Int
  /\ intact \in BOOLEAN
  /\ fresh \in BOOLEAN
  /\ starts \in Nat /\ changes \in Nat /\ mishaps \in Nat

\* While the process runs, the time line never goes back, even if the real
\* clock is set back, unless it is reset or given another offset on purpose
\* (time_system.py:300-311).
NeverBackwards == [][up /\ up' => seen' >= seen \/ Jump]_vars

\* At any instant of the real clock the line is moved only on purpose: by a
\* jump, by advance_time or by the alignment with the records.  No change of
\* scale, pause or resumption moves it.
NoSilentJump ==
  [][up /\ up' /\ clock' = clock => Now' = Now \/ Jump \/ Advance \/ OpenMemory]_vars

\* The management backend, which only has the anchor, dates an edit exactly as
\* the agents would: reads, pauses, changes of scale and health checks included.
\* A failed write, a real clock set back since the last write, or a health
\* check that wrote an anchor of another scale or one read too early, voids this.
ProjectionAgrees == intact => Projection(anchor) = Now

\* A restart neither loses nor adds time: the line is where it would be if the
\* process had run on, whatever scale was configured meanwhile.
RestartContinues ==
  [][~up /\ up' /\ intact /\ mishaps' = mishaps => seen' = Now]_vars

\* Once the memories are open, none of them is from the future, whatever was
\* lost at the restart before (time_system.py:330-350).
NoFutureRecords == up /\ aligned => records <= elapsed + offset
=============================================================================
