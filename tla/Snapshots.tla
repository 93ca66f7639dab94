----------------------------- MODULE Snapshots -----------------------------
(***************************************************************************)
(* SnapshotManager of internal/cache/persistence.go with the two caches it *)
(* saves, the timer that saves them now and then, and the boot and the     *)
(* shutdown of the gateway (cmd/kurisu/main.go), which may crash between   *)
(* any two steps. The semantic cache is the one of module SemanticCache;   *)
(* of the exact one, which module ExactCache has in full, the order is     *)
(* left out, and so which entry gives way. Persistence is enabled, with    *)
(* restore on startup.                                                     *)
(***************************************************************************)
EXTENDS Integers, FiniteSets, SequencesExt, Lists

CONSTANTS
    Answers,    \* the answers: numbers, in the order they are given
    None,       \* no holder of the lock
    ExactTTL, SemanticTTL, \* the times to live of the entries of the two caches
    Asked,      \* the request that each answer is for
    Configured, \* the capacity of both caches in each process
    MaxTime,    \* bound on the clock
    MaxTicks    \* bound on the number of saves by the timer

ASSUME SnapshotAssumption ==
    /\ None \notin {"timer", "main"} /\ None \notin Answers
    /\ Answers \subseteq Nat \ {0}
    /\ DOMAIN Asked = Answers
    /\ ExactTTL \in Nat \ {0} /\ SemanticTTL \in Nat \ {0}
    /\ Configured \in Seq(Nat \ {0})
    /\ MaxTime \in Nat /\ MaxTicks \in Nat

VARIABLES
    capacity,   \* the capacity of both caches
    semantic,   \* the semantic cache, oldest first
    now,        \* the clock
    exact,      \* the exact cache, a set of entries
    writers,    \* the answers that goroutines will write to the semantic cache
    purging,    \* whether PurgeCache has cleared the first of the two caches
    file,       \* the snapshot file: a set of one snapshot, or of none
    saver,      \* the calls of SaveSnapshot, by the timer and by main
    holder,     \* the caller that holds the manager's lock
    life,       \* how far the process is in its life
    stored,     \* how many answers were stored; an answer is named by its number
    boots,      \* how many processes there were
    ticks,      \* how many saves the timer began
    final,      \* history: how the save at shutdown ended
    late,       \* history: the answers cached since the signal, by cache
    flushed     \* history: what this process purged before the signal

caches  == <<capacity, exact, semantic, writers, purging>>
process == <<file, saver, holder, life, boots, ticks>>
history == <<final, late, flushed>>
vars == <<caches, now, process, stored, history>>

Savers == {"timer", "main"}
Up == life \in {"serving", "stopping", "draining"}

Snapshot(w, e, s, t) == [whole |-> w, exact |-> e, semantic |-> s, at |-> t]
Blank    == Snapshot(FALSE, {}, <<>>, 0)
Idle     == [s \in Savers |-> [pc |-> "idle", data |-> Blank]]
Nothing  == [exact |-> {}, semantic |-> {}]

Requests == {Asked[a] : a \in Answers}
Alike    == [pair \in Requests \X Requests |-> 0]

SemanticCache == INSTANCE SemanticCache WITH
    Prompts <- Requests, Models <- Requests,
    Score <- Alike, Threshold <- 0, TTL <- SemanticTTL,
    Capacities <- {}, Files <- {}, log <- <<>>, cleared <- 0

Lives(e)  == SemanticCache!Lives(e)
Serves(e) == SemanticCache!Serves(e)

Init ==
    /\ capacity = 0
    /\ exact = {} /\ semantic = <<>> /\ writers = {} /\ purging = FALSE
    /\ now = 0
    /\ file = {}
    /\ saver = Idle /\ holder = None
    /\ life = "down" /\ boots = 0 /\ ticks = 0
    /\ stored = 0
    /\ final = "none" /\ late = Nothing /\ flushed = Nothing

-----------------------------------------------------------------------------
(* The requests and the administrator, while the process serves: also      *)
(* while it shuts down, until the server has stopped.                      *)

(* Mutant: the capacity is not looked at.                                  *)
SomeOf_All(entries, room) == {entries}

(* The ways to keep as many entries as there is room for.                  *)
SomeOf(entries, room) ==
    kSubset(IF Cardinality(entries) <= room THEN Cardinality(entries) ELSE room, entries)

(* A lookup that finds an expired entry drops it.                          *)
ExactGet(e) ==
    /\ Up
    /\ ~Serves(e)
    /\ exact' = exact \ {e}
    /\ UNCHANGED <<capacity, semantic, writers, purging, now, process, stored, history>>

Note(which, cached) ==
    late' = IF life = "serving" THEN late
            ELSE [late EXCEPT ![which] = late[which] \cup {cached}]

(* A complete answer: it goes to the exact cache at once, and to the       *)
(* semantic one by a goroutine.                                            *)
Store(a) ==
    /\ Up
    /\ a = stored + 1
    /\ stored' = a
    /\ LET others == {e \in exact : Asked[e.answer] # Asked[a]}
       IN  \E kept \in SomeOf(others, capacity - 1) :
              exact' = kept \cup {[answer |-> a, expiresAt |-> now + ExactTTL]}
    /\ writers' = writers \cup {a}
    /\ Note("exact", a)
    /\ UNCHANGED <<capacity, semantic, purging, now, process, final, flushed>>

WriteSemantic(a) ==
    /\ Up
    /\ writers' = writers \ {a}
    /\ semantic' = SemanticCache!Added(semantic, Asked[a], Asked[a], a)
    /\ Note("semantic", a)
    /\ UNCHANGED <<capacity, exact, purging, now, process, stored, final, flushed>>

AnswersIn(entries) == {e.answer : e \in entries}

(* What is purged after the signal may be in the last snapshot.            *)
Flush(which, cache) ==
    flushed' = IF life # "serving" THEN flushed
               ELSE [flushed EXCEPT ![which] = flushed[which] \cup AnswersIn(cache)]

PurgeExact ==
    /\ Up /\ ~purging
    /\ exact' = {}
    /\ purging' = TRUE
    /\ Flush("exact", exact)
    /\ UNCHANGED <<capacity, semantic, writers, now, process, stored, final, late>>

PurgeSemantic ==
    /\ Up /\ purging
    /\ semantic' = <<>>
    /\ purging' = FALSE
    /\ Flush("semantic", ToSet(semantic))
    /\ UNCHANGED <<capacity, exact, writers, now, process, stored, final, late>>

-----------------------------------------------------------------------------
(* SaveSnapshot: each step is what it does between two locks or two system *)
(* calls.                                                                  *)

Saving(s, before, after) ==
    saver[s].pc = before /\ saver' = [saver EXCEPT ![s].pc = after]

(* After cancelSnap the select may still take a tick that is due.          *)
Tick ==
    /\ Up
    /\ ticks < MaxTicks
    /\ ticks' = ticks + 1
    /\ Saving("timer", "idle", "waiting")
    /\ UNCHANGED <<caches, now, file, holder, life, boots, stored, history>>

ExactExport == {e \in exact : Lives(e)}

(* Mutant: the manager has no lock.                                        *)
Lock_Free(s) ==
    /\ saver[s].pc = "waiting"
    /\ saver' = [saver EXCEPT ![s] =
          [pc |-> "exporting", data |-> Snapshot(FALSE, ExactExport, <<>>, now)]]
    /\ UNCHANGED <<caches, now, file, holder, life, boots, ticks, stored, history>>

(* The lock is taken and the exact cache exported.                         *)
Lock(s) ==
    /\ saver[s].pc = "waiting"
    /\ holder = None
    /\ holder' = s
    /\ saver' = [saver EXCEPT ![s] =
          [pc |-> "exporting", data |-> Snapshot(FALSE, ExactExport, <<>>, now)]]
    /\ UNCHANGED <<caches, now, file, life, boots, ticks, stored, history>>

(* Mutant: an empty list is saved.                                         *)
ExportSemantic_Skipped(s) ==
    /\ saver[s].pc = "exporting"
    /\ saver' = [saver EXCEPT ![s].pc = "writing"]
    /\ UNCHANGED <<caches, now, file, holder, life, boots, ticks, stored, history>>

ExportSemantic(s) ==
    /\ saver[s].pc = "exporting"
    /\ saver' = [saver EXCEPT ![s].pc = "writing",
                              ![s].data.semantic = SemanticCache!ExportEntries(semantic)]
    /\ UNCHANGED <<caches, now, file, holder, life, boots, ticks, stored, history>>

(* Mutant: the snapshot is written in the place of the old one.            *)
Write_InPlace(s) ==
    /\ saver[s].pc = "writing"
    /\ \/ /\ file # {saver[s].data}
          /\ file' = {saver[s].data}
          /\ UNCHANGED saver
       \/ /\ saver' = [saver EXCEPT ![s].pc = "written", ![s].data.whole = TRUE]
          /\ UNCHANGED file
    /\ UNCHANGED <<caches, now, holder, life, boots, ticks, stored, history>>

(* The temporary file is complete once it is written, not before.          *)
Write(s) ==
    /\ saver[s].pc = "writing"
    /\ saver' = [saver EXCEPT ![s].pc = "written", ![s].data.whole = TRUE]
    /\ UNCHANGED <<caches, now, file, holder, life, boots, ticks, stored, history>>

(* SaveSnapshot returns and gives the lock back. After main's call the     *)
(* server is told to stop.                                                 *)
Return(s, result) ==
    /\ saver' = [saver EXCEPT ![s] = Idle[s]]
    /\ holder' = None
    /\ IF s = "main" THEN life' = "draining" /\ final' = result
       ELSE UNCHANGED <<life, final>>

Rename(s) ==
    /\ saver[s].pc = "written"
    /\ file' = {saver[s].data}
    /\ Return(s, "saved")
    /\ UNCHANGED <<caches, now, boots, ticks, stored, late, flushed>>

(* Mutant: the lock is given back only when all went well.                 *)
SaveFails_KeepsLock(s) ==
    /\ saver[s].pc \in {"writing", "written"}
    /\ saver' = [saver EXCEPT ![s] = Idle[s]]
    /\ IF s = "main" THEN life' = "draining" /\ final' = "failed"
       ELSE UNCHANGED <<life, final>>
    /\ UNCHANGED <<caches, now, file, holder, boots, ticks, stored, late, flushed>>

(* The directory, the temporary file or the renaming fails: the file that  *)
(* was there stays.                                                        *)
SaveFails(s) ==
    /\ saver[s].pc \in {"writing", "written"}
    /\ Return(s, "failed")
    /\ UNCHANGED <<caches, now, file, boots, ticks, stored, late, flushed>>

-----------------------------------------------------------------------------
(* The life of the process.                                                *)

Begin ==
    /\ life \in {"down", "exited"}
    /\ boots < Len(Configured)
    /\ boots' = boots + 1
    /\ life' = "serving"
    /\ capacity' = Configured[boots + 1]
    /\ writers' = {} /\ purging' = FALSE
    /\ saver' = Idle /\ holder' = None
    /\ final' = "none" /\ late' = Nothing /\ flushed' = Nothing

(* RestoreSnapshot: the exact entries were written in the random order of  *)
(* a map, and are used in that order, so of too many any may be evicted.   *)
Restore ==
    /\ Begin
    /\ \E f \in file :
          /\ f.whole
          /\ exact' \in SomeOf({e \in f.exact : Lives(e)}, capacity')
          /\ semantic' = SemanticCache!ImportEntries(f.semantic, capacity')
    /\ UNCHANGED <<now, file, ticks, stored>>

(* There is no file, or it cannot be read or parsed: main goes on without. *)
StartEmpty ==
    /\ Begin
    /\ exact' = {} /\ semantic' = <<>>
    /\ UNCHANGED <<now, file, ticks, stored>>

(* A signal: the timer is cancelled and main saves before the server stops.*)
Stop ==
    /\ life = "serving"
    /\ life' = "stopping"
    /\ Saving("main", "idle", "waiting")
    /\ UNCHANGED <<caches, now, file, holder, boots, ticks, stored, history>>

(* The server has stopped, or five seconds are over. The goroutines that   *)
(* still write or save end with the process.                               *)
Exit ==
    /\ life = "draining"
    /\ life' = "exited"
    /\ saver' = Idle /\ holder' = None
    /\ UNCHANGED <<caches, now, file, boots, ticks, stored, history>>

Crash ==
    /\ Up
    /\ life' = "down"
    /\ exact' = {} /\ semantic' = <<>> /\ writers' = {} /\ purging' = FALSE
    /\ saver' = Idle /\ holder' = None
    /\ final' = "none" /\ late' = Nothing /\ flushed' = Nothing
    /\ UNCHANGED <<capacity, now, file, boots, ticks, stored>>

Pass ==
    /\ now < MaxTime
    /\ now' = now + 1
    /\ UNCHANGED <<caches, process, stored, history>>

Next ==
    \/ \E e \in exact : ExactGet(e)
    \/ \E a \in Answers : Store(a)
    \/ \E a \in writers : WriteSemantic(a)
    \/ PurgeExact \/ PurgeSemantic
    \/ Tick \/ \E s \in Savers :
          Lock(s) \/ ExportSemantic(s) \/ Write(s) \/ Rename(s) \/ SaveFails(s)
    \/ Restore \/ StartEmpty \/ Stop \/ Exit \/ Crash
    \/ Pass

Spec == Init /\ [][Next]_vars

-----------------------------------------------------------------------------
(* Properties.                                                             *)

ExactEntry == [answer : Answers, expiresAt : Nat]

SnapshotTypeOK(d) ==
    /\ d.whole \in BOOLEAN /\ d.at \in Nat
    /\ d.exact \subseteq ExactEntry /\ d.semantic \in Seq(SemanticCache!Entry)

TypeOK ==
    /\ capacity \in Nat
    /\ exact \subseteq ExactEntry /\ semantic \in Seq(SemanticCache!Entry)
    /\ Cardinality(exact) <= capacity /\ Len(semantic) <= capacity
    /\ writers \subseteq Answers
    /\ purging \in BOOLEAN
    /\ now \in 0 .. MaxTime /\ boots \in 0 .. Len(Configured) /\ ticks \in 0 .. MaxTicks
    /\ stored \in Nat
    /\ Cardinality(file) <= 1 /\ \A f \in file : SnapshotTypeOK(f)
    /\ \A s \in Savers : SnapshotTypeOK(saver[s].data)
    /\ \A s \in Savers :
          saver[s].pc \in {"idle", "waiting", "exporting", "writing", "written"}
    /\ holder \in Savers \cup {None}
    /\ life \in {"down", "serving", "stopping", "draining", "exited"}
    /\ final \in {"none", "saved", "failed"}

(* "Atomically serializes": at every moment, and so after a crash at any   *)
(* moment, the file is a complete snapshot or does not exist yet.          *)
FileWhole == \A f \in file : f.whole

(* Whoever is between the lock and the return of SaveSnapshot holds the    *)
(* lock, so there is one at most, and a lock that nobody will give back is *)
(* never held, whichever way the save ended.                               *)
LockInUse ==
    \A s \in Savers :
        saver[s].pc \in {"exporting", "writing", "written"} <=> holder = s

(* Saves do not overtake each other: the timer's last save, which may      *)
(* still run or wait when main saves, never puts older caches in the place *)
(* of newer ones.                                                          *)
NeverOlder == [][\A old \in file : \E new \in file' : new.at >= old.at]_vars

StoppedWell == life = "exited" /\ final = "saved"

(* After a graceful stop whose save succeeded, what was cached at the      *)
(* signal, has not expired and was not evicted or purged since is in the   *)
(* file.                                                                   *)
StopKeeps ==
    StoppedWell => \E f \in file :
        /\ \A e \in exact :
              Lives(e) /\ e.answer \notin late.exact => e \in f.exact
        /\ \A e \in ToSet(semantic) :
              Lives(e) /\ e.answer \notin late.semantic => e \in ToSet(f.semantic)

(* After it, nothing that was purged before the signal is in the file, not *)
(* even by a save that had exported one cache before the purge.            *)
PurgeOutlivesStop ==
    StoppedWell => \A f \in file :
        /\ AnswersIn(f.exact) \cap flushed.exact = {}
        /\ AnswersIn(ToSet(f.semantic)) \cap flushed.semantic = {}

(* What StopKeeps and PurgeOutlivesStop are for: the process that is       *)
(* started after such a stop goes on with what the stopped one served. A   *)
(* live entry of either cache is there again unless the cache is full, the *)
(* semantic one of entries no older; and what was purged does not return.  *)
RestartResumes ==
    [][Restore /\ StoppedWell =>
         /\ \A e \in exact : Lives(e) /\ e.answer \notin late.exact =>
               e \in exact' \/ Cardinality(exact') = capacity'
         /\ \A e \in ToSet(semantic) : Lives(e) /\ e.answer \notin late.semantic =>
               \/ e \in ToSet(semantic')
               \/ /\ Len(semantic') = capacity'
                  /\ \A g \in ToSet(semantic') : g.expiresAt >= e.expiresAt
         /\ AnswersIn(exact') \cap flushed.exact = {}
         /\ AnswersIn(ToSet(semantic')) \cap flushed.semantic = {}
      ]_vars
=============================================================================
