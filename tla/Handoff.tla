------------------------------- MODULE Handoff -------------------------------
(***************************************************************************)
(* The handoff of the usage ledger between instances of the plugin in one  *)
(* CPA process (internal/policy/handoff.go, store.go, internal/plugin/     *)
(* app.go): the data directory lock, the accounting cut and the journal of *)
(* a quiesced instance, its replay and follower in the newer one, CPA's    *)
(* rollback and re-registration of a resident instance, and crashes.       *)
(*                                                                         *)
(* A ledger is how often it bills each usage record: never, once or more   *)
(* often.  Journals are files with an identity, since a renamed journal    *)
(* keeps receiving the old instance's lines and the follower keeps reading *)
(* it.                                                                     *)
(***************************************************************************)
EXTENDS Integers, Sequences, FiniteSets

CONSTANTS
  Instances,        \* plugin instances (App and its Store)
  Records,          \* usage records CPA delivers, each once
  MaxJournals,      \* bound: journal files ever created
  MaxReplacements,  \* bound: hot replacements
  MaxCrashes,       \* bound: crashes of CPA
  Failures,         \* what may fail, of FailureKinds
  None

FailureKinds ==
  {"flush",    \* FlushUsage writes nothing
   "partial",  \* FlushUsage writes the live file and still reports an error
   "rename",   \* renaming the replayed journal
   "open",     \* opening the journal at quiesce
   "append",   \* a journal append
   "load"}     \* loading the dataset at a registration

ASSUME HandoffAssumption ==
  /\ MaxJournals \in Nat /\ MaxReplacements \in Nat /\ MaxCrashes \in Nat
  /\ Failures \subseteq FailureKinds
  /\ None \notin Instances

Journal == 1..MaxJournals
NoFile == 0
Bills == [Records -> 0..2]  \* 2: more than once
Nothing == [r \in Records |-> 0]

VARIABLES
  \* an instance: App.owner/quiesced and its Store
  mem,        \* its ledger
  dirty,      \* the ledger has changed since it was written
  flushing,   \* its periodic flusher runs
  quiesced,   \* it handed off
  writer,     \* the journal its handoff writer points to
  open,       \* that writer is not closed
  follower,   \* the journal it replays and follows
  \* the data directory
  owner,      \* holder of the lock
  disk,       \* the ledger the files hold
  journal,    \* lines of every journal file
  path,       \* the file at cpa-key-policy-handoff.jsonl
  created,    \* journal files created
  \* CPA
  phase,      \* of the replacement under way
  active,     \* the instance CPA calls
  target,     \* the instance being loaded
  replaced,   \* replacements so far
  crashes,    \* crashes so far
  \* history variables of the properties
  delivered,  \* records delivered
  losable,    \* records only a memory held at a crash, only an older
              \* instance's line held at a rollback, or whose line the newer
              \* instance never got to read
  torn,       \* records a crash left both in the files and in the journal
  stuck       \* journals whose rename failed after a cut that holds their entries

store == <<mem, dirty, flushing, quiesced, writer, open, follower>>
dir   == <<owner, disk, journal, path, created>>
cpa   == <<phase, active, target, replaced, crashes>>
ghosts == <<delivered, losable, torn, stuck>>
vars  == <<store, dir, cpa, ghosts>>

NoFollower == [pc |-> "off", file |-> NoFile, pos |-> 0, closed |-> FALSE, stopping |-> FALSE, last |-> FALSE]

Phases == {"run", "quiesce", "load", "adopt", "loaded", "discard", "rollback", "exit", "down"}

TypeOK ==
  /\ mem \in [Instances -> Bills] /\ disk \in Bills
  /\ dirty \in [Instances -> BOOLEAN] /\ flushing \in [Instances -> BOOLEAN]
  /\ quiesced \in [Instances -> BOOLEAN] /\ open \in [Instances -> BOOLEAN]
  /\ writer \in [Instances -> Journal \cup {NoFile}]
  /\ follower \in [Instances ->
       [pc : {"off", "wait", "flush", "rename"}, file : Journal \cup {NoFile}, pos : Nat,
        closed : BOOLEAN, stopping : BOOLEAN, last : BOOLEAN]]
  /\ \A i \in Instances : follower[i].file # NoFile => follower[i].pos <= Len(journal[follower[i].file])
  /\ owner \in Instances \cup {None}
  /\ journal \in [Journal -> Seq(Records)] /\ path \in Journal \cup {NoFile} /\ created \in 0..MaxJournals
  /\ phase \in Phases /\ active \in Instances \cup {None} /\ target \in Instances \cup {None}
  /\ replaced \in Nat /\ crashes \in Nat
  /\ delivered \subseteq Records /\ losable \subseteq Records /\ torn \subseteq Records
  /\ stuck \subseteq Journal

----------------------------------------------------------------------------
\* Ledgers and journals

Count(s, r) == Cardinality({n \in DOMAIN s : s[n] = r})
AtMostTwo(n) == IF n > 2 THEN 2 ELSE n
Apply(bills, lines) == [r \in Records |-> AtMostTwo(bills[r] + Count(lines, r))]
From(s, pos) == SubSeq(s, pos + 1, Len(s))

\* The lines the follower has yet to read; its last round reads no more.
Reads(i, file) == follower[i].pc # "off" /\ ~follower[i].last /\ follower[i].file = file
Unread(i) == IF Reads(i, follower[i].file) THEN From(journal[follower[i].file], follower[i].pos) ELSE <<>>
AtPath == IF path = NoFile THEN <<>> ELSE journal[path]

\* The instance whose ledger CPA ends up with: the one it rolls back to, or the
\* owner; None when the next registration reads the files and the journal.
Keeper == IF phase \in {"discard", "rollback"} THEN active ELSE owner

\* The ledger CPA ends up with if nothing more is delivered.
Outcome == IF Keeper # None THEN Apply(mem[Keeper], Unread(Keeper)) ELSE Apply(disk, AtPath)

\* FlushUsage of instance i: does it report success?
FlushResult(i, ok) ==
  \/ ok /\ disk' = mem[i] /\ dirty' = [dirty EXCEPT ![i] = FALSE]
  \/ ~ok /\ "flush" \in Failures /\ dirty[i] /\ UNCHANGED <<disk, dirty>>
  \/ ~ok /\ "partial" \in Failures /\ dirty[i] /\ disk' = mem[i] /\ dirty' = dirty

----------------------------------------------------------------------------
\* Billing

\* CPA calls the active instance; calls already under way reach an instance
\* that handed off until it is shut down.
Reaches(i) == i = active \/ (quiesced[i] /\ open[i])

\* A line appended now does not reach the ledger CPA ends up with: its instance
\* does not follow the file, and no registration loads it from the path.
Unseen(file) == IF Keeper = None THEN file # path ELSE ~Reads(Keeper, file)

\* RecordUsage books the call and, while handing off, journals it.
Deliver(i, r) ==
  /\ Reaches(i) /\ r \notin delivered
  /\ delivered' = delivered \cup {r}
  /\ mem' = [mem EXCEPT ![i] = Apply(@, <<r>>)]
  /\ dirty' = [dirty EXCEPT ![i] = TRUE]
  /\ \/ /\ writer[i] # NoFile /\ open[i]
        /\ journal' = [journal EXCEPT ![writer[i]] = Append(@, r)]
        /\ losable' = IF i = Keeper \/ ~Unseen(writer[i]) THEN losable ELSE losable \cup {r}
     \/ /\ writer[i] # NoFile => ~open[i] \/ "append" \in Failures
        /\ journal' = journal
        /\ losable' = IF i = Keeper THEN losable ELSE losable \cup {r}
  /\ UNCHANGED <<flushing, quiesced, writer, open, follower, owner, disk, path, created, cpa, torn, stuck>>

\* The periodic flusher.
FlushTick(i) ==
  /\ flushing[i] /\ dirty[i]
  /\ \E ok \in BOOLEAN : FlushResult(i, ok)
  /\ UNCHANGED <<mem, flushing, quiesced, writer, open, follower, owner, journal, path, created, cpa, ghosts>>

----------------------------------------------------------------------------
\* The follower: AdoptHandoff starts it at "flush", closing the journal

\* After a read the journal is closed when it is not yet, or the batch is
\* written; a stop ends it otherwise.
AfterRead_KeepsOn(f, grown) == IF ~f.closed \/ (grown /\ ~f.stopping) THEN "flush" ELSE "wait"
AfterRead(f, grown) ==
  IF ~f.closed \/ (grown /\ ~f.stopping) THEN "flush" ELSE IF f.stopping THEN "off" ELSE "wait"

\* One round of followHandoff: what was appended is applied.
FollowRead(i) ==
  LET f == follower[i]
      lines == Unread(i) IN
  /\ f.pc = "wait"
  /\ lines # <<>> \/ ~f.closed \/ f.stopping
  /\ mem' = [mem EXCEPT ![i] = Apply(@, lines)]
  /\ dirty' = [dirty EXCEPT ![i] = @ \/ lines # <<>>]
  /\ follower' = [follower EXCEPT ![i] =
       [f EXCEPT !.pos = Len(journal[f.file]), !.last = f.stopping, !.pc = AfterRead(f, lines # <<>>)]]
  /\ UNCHANGED <<flushing, quiesced, writer, open, dir, cpa, ghosts>>

\* closeHandoff flushes first and renames only after success.
AfterFlush(f, ok) ==
  [f EXCEPT !.pc = IF f.closed THEN "wait" ELSE IF ok THEN "rename" ELSE IF f.last THEN "off" ELSE "wait"]

FollowFlush(i) ==
  /\ follower[i].pc = "flush"
  /\ \E ok \in BOOLEAN :
       FlushResult(i, ok) /\ follower' = [follower EXCEPT ![i] = AfterFlush(@, ok)]
  /\ UNCHANGED <<mem, flushing, quiesced, writer, open, owner, journal, path, created, cpa, ghosts>>

\* A failed rename is logged and the journal counts as closed.
FollowRename(i) ==
  /\ follower[i].pc = "rename"
  /\ \/ path' = NoFile /\ stuck' = stuck
     \/ "rename" \in Failures /\ path' = path /\ stuck' = stuck \cup {path}
  /\ follower' = [follower EXCEPT ![i].closed = TRUE, ![i].pc = IF follower[i].last THEN "off" ELSE "wait"]
  /\ UNCHANGED <<mem, dirty, flushing, quiesced, writer, open, owner, disk, journal, created, cpa, delivered, losable, torn>>

\* It stops once the journal has not grown for a while.
FollowQuiet(i) ==
  /\ follower[i].pc = "wait" /\ follower[i].closed /\ ~follower[i].stopping /\ Unread(i) = <<>>
  /\ follower' = [follower EXCEPT ![i] = NoFollower]
  /\ UNCHANGED <<mem, dirty, flushing, quiesced, writer, open, dir, cpa, ghosts>>

\* stopFollowing asks for one last round and waits for it.
StopFollowing(i) ==
  follower' = [follower EXCEPT ![i] = IF @.pc = "off" THEN @ ELSE [@ EXCEPT !.stopping = TRUE]]

----------------------------------------------------------------------------
\* Quiesce (App.quiesce, Store.Quiesce)

\* CPA replaces the active instance by another one, or by the same bytes.
BeginReplacement(n) ==
  /\ phase = "run" /\ owner = active /\ active # None
  /\ replaced < MaxReplacements /\ created < MaxJournals
  /\ replaced' = replaced + 1
  /\ phase' = "quiesce" /\ target' = n
  /\ StopFollowing(active)
  /\ UNCHANGED <<mem, dirty, flushing, quiesced, writer, open, dir, active, crashes, ghosts>>

\* The journal at the path is opened for appending, or created.
JournalToOpen == IF path = NoFile THEN created + 1 ELSE path

\* stopFlusher waits for a flush under way.
FlusherStopped(i) == [flushing EXCEPT ![i] = FALSE]

\* The cut and the journal are written; the lock is released.
Quiesce ==
  /\ phase = "quiesce" /\ follower[active].pc = "off"
  /\ FlushResult(active, TRUE)
  /\ writer' = [writer EXCEPT ![active] = JournalToOpen]
  /\ open' = [open EXCEPT ![active] = TRUE]
  /\ path' = JournalToOpen /\ created' = IF path = NoFile THEN created + 1 ELSE created
  /\ quiesced' = [quiesced EXCEPT ![active] = TRUE]
  /\ flushing' = FlusherStopped(active)
  /\ owner' = None
  /\ phase' = "load"
  /\ UNCHANGED <<mem, follower, journal, active, target, replaced, crashes, ghosts>>

\* When the cut fails the journal just opened is removed again (Resume); when
\* the journal cannot be opened it is left alone.  Either way the instance
\* keeps the directory and serves on.
QuiesceFails ==
  /\ phase = "quiesce" /\ follower[active].pc = "off"
  /\ \/ FlushResult(active, FALSE) /\ path' = NoFile
     \/ "open" \in Failures /\ (\E ok \in BOOLEAN : FlushResult(active, ok)) /\ path' = path
  /\ phase' = "run" /\ target' = None
  /\ UNCHANGED <<mem, flushing, quiesced, writer, open, follower, owner, journal, created, active, replaced, crashes, ghosts>>

----------------------------------------------------------------------------
\* Registration (App.configure, Store.configure, AdoptHandoff)

\* What a registration loads, also into a resident instance that gave the
\* directory up: the files and the journal.
Loaded_FilesOnly(i) == disk
Loaded_FromMemory(i) == Apply(mem[i], AtPath)
Loaded(i) == Apply(disk, AtPath)

\* A follower that has replayed the journal at the path.
Replayed_FromStart == [NoFollower EXCEPT !.pc = "flush", !.file = path]
Replayed == [NoFollower EXCEPT !.pc = "flush", !.file = path, !.pos = Len(AtPath)]

\* The lock is free: the dataset is loaded, into a resident instance too, and
\* the journal in the directory is replayed; a resident instance closes its
\* own writer.
Register ==
  /\ phase = "load" /\ owner = None
  /\ owner' = target
  /\ mem' = [mem EXCEPT ![target] = Loaded(target)]
  /\ dirty' = [dirty EXCEPT ![target] = AtPath # <<>>]
  /\ writer' = [writer EXCEPT ![target] = NoFile] /\ open' = [open EXCEPT ![target] = FALSE]
  /\ quiesced' = [quiesced EXCEPT ![target] = FALSE]
  /\ follower' = [follower EXCEPT ![target] =
       IF path = NoFile THEN NoFollower ELSE Replayed]
  /\ phase' = "adopt"
  /\ UNCHANGED <<flushing, disk, journal, path, created, active, target, replaced, crashes, ghosts>>

\* AdoptHandoff returns after its first attempt to close the journal; resume
\* then starts the flusher.
Adopted ==
  /\ phase = "adopt" /\ follower[target].pc \in {"off", "wait"}
  /\ flushing' = [flushing EXCEPT ![target] = TRUE]
  /\ phase' = "loaded"
  /\ UNCHANGED <<mem, dirty, quiesced, writer, open, follower, dir, active, target, replaced, crashes, ghosts>>

\* What the instance CPA rolls back to never billed: lines of an older one.
Behind == {r \in delivered : Apply(mem[active], Unread(active))[r] = 0}

\* Store.Stop closes the writer and keeps it.
Stopped(w) == w

\* The dataset does not load.  CPA discards the load: it shuts the instance
\* down, which for the same bytes is the quiesced one (Store.Stop closes its
\* writer and keeps it), and rolls back; at a start there is nothing to roll
\* back to.
RegisterFails ==
  /\ phase = "load" /\ "load" \in Failures
  /\ IF target = active /\ active # None
     THEN open' = [open EXCEPT ![active] = FALSE] /\ writer' = [writer EXCEPT ![active] = Stopped(@)]
     ELSE UNCHANGED <<open, writer>>
  /\ phase' = IF active = None THEN "down" ELSE "rollback"
  /\ target' = None
  /\ losable' = IF active = None THEN losable ELSE losable \cup Behind
  /\ UNCHANGED <<mem, dirty, flushing, quiesced, follower, dir, active, replaced, crashes, delivered, torn, stuck>>

\* CPA switches its calls to the new instance.
Switch ==
  /\ phase = "loaded"
  /\ active' = target /\ target' = None /\ phase' = "run"
  /\ UNCHANGED <<store, dir, replaced, crashes, ghosts>>

----------------------------------------------------------------------------
\* Shutdown and rollback

\* Shutdown of an instance that handed off writes nothing.
RetireOld(i) ==
  /\ i # active /\ quiesced[i] /\ open[i]
  /\ open' = [open EXCEPT ![i] = FALSE]
  /\ UNCHANGED <<mem, dirty, flushing, quiesced, writer, follower, dir, cpa, ghosts>>

\* CPA discards the load and shuts the new instance down.
Discard ==
  /\ phase = "loaded" /\ active # None
  /\ phase' = "discard"
  /\ StopFollowing(target)
  /\ losable' = losable \cup Behind
  /\ UNCHANGED <<mem, dirty, flushing, quiesced, writer, open, dir, active, target, replaced, crashes, delivered, torn, stuck>>

\* Shutdown of the owner: the final cut, saved or not, and the lock last.
ShutdownOwner(i) ==
  /\ follower[i].pc = "off"
  /\ \E ok \in BOOLEAN : FlushResult(i, ok)
  /\ flushing' = FlusherStopped(i)
  /\ owner' = None

Discarded ==
  /\ phase = "discard"
  /\ ShutdownOwner(target)
  /\ phase' = "rollback" /\ target' = None
  /\ UNCHANGED <<mem, quiesced, writer, open, follower, journal, path, created, active, replaced, crashes, ghosts>>

\* Reconfigure: the instance takes the lock back and serves on from memory;
\* its journal is removed through its writer (Store.Resume).
Rollback ==
  /\ phase = "rollback" /\ owner = None
  /\ owner' = active
  /\ path' = IF writer[active] = NoFile THEN path ELSE NoFile
  /\ writer' = [writer EXCEPT ![active] = NoFile] /\ open' = [open EXCEPT ![active] = FALSE]
  /\ quiesced' = [quiesced EXCEPT ![active] = FALSE]
  /\ flushing' = [flushing EXCEPT ![active] = TRUE]
  /\ phase' = "run"
  /\ UNCHANGED <<mem, dirty, follower, disk, journal, created, active, target, replaced, crashes, ghosts>>

----------------------------------------------------------------------------
\* The process

\* Every instance is gone with its memory; the lock goes with the process.
\* What no file holds is lost.
Gone(bills) ==
  /\ mem' = [i \in Instances |-> Nothing] /\ dirty' = [i \in Instances |-> FALSE]
  /\ flushing' = [i \in Instances |-> FALSE] /\ quiesced' = [i \in Instances |-> FALSE]
  /\ writer' = [i \in Instances |-> NoFile] /\ open' = [i \in Instances |-> FALSE]
  /\ follower' = [i \in Instances |-> NoFollower]
  /\ owner' = None /\ active' = None /\ target' = None
  /\ phase' = "down"
  /\ losable' = losable \cup {r \in delivered : Apply(bills, AtPath)[r] = 0}
  /\ UNCHANGED <<journal, path, created, replaced, delivered, stuck>>

Crash ==
  /\ phase # "down" /\ crashes < MaxCrashes
  /\ Gone(disk)
  /\ crashes' = crashes + 1
  /\ disk' = disk
  /\ torn' = torn \cup {r \in Records : disk[r] > 0 /\ Count(AtPath, r) > 0}

\* CPA exits: the serving instance is shut down first.
BeginExit ==
  /\ phase = "run" /\ owner = active
  /\ phase' = "exit"
  /\ StopFollowing(active)
  /\ UNCHANGED <<mem, dirty, flushing, quiesced, writer, open, dir, active, target, replaced, crashes, ghosts>>

Exit ==
  /\ phase = "exit" /\ follower[active].pc = "off"
  /\ \/ disk' = mem[active]
     \/ "flush" \in Failures /\ dirty[active] /\ disk' = disk
  /\ Gone(disk')
  /\ UNCHANGED <<crashes, torn>>

Start(n) ==
  /\ phase = "down"
  /\ phase' = "load" /\ target' = n
  /\ UNCHANGED <<store, dir, active, replaced, crashes, ghosts>>

----------------------------------------------------------------------------
Init ==
  /\ mem = [i \in Instances |-> Nothing] /\ disk = Nothing
  /\ dirty = [i \in Instances |-> FALSE] /\ flushing = [i \in Instances |-> FALSE]
  /\ quiesced = [i \in Instances |-> FALSE] /\ open = [i \in Instances |-> FALSE]
  /\ writer = [i \in Instances |-> NoFile] /\ follower = [i \in Instances |-> NoFollower]
  /\ owner = None /\ journal = [f \in Journal |-> <<>>] /\ path = NoFile /\ created = 0
  /\ phase = "down" /\ active = None /\ target = None /\ replaced = 0 /\ crashes = 0
  /\ delivered = {} /\ losable = {} /\ torn = {} /\ stuck = {}

Follow(i) == FollowRead(i) \/ FollowFlush(i) \/ FollowRename(i)

Next ==
  \/ \E i \in Instances, r \in Records : Deliver(i, r)
  \/ \E i \in Instances : FlushTick(i) \/ Follow(i) \/ FollowQuiet(i) \/ RetireOld(i)
  \/ \E n \in Instances : BeginReplacement(n) \/ Start(n)
  \/ Quiesce \/ QuiesceFails \/ Register \/ Adopted \/ RegisterFails
  \/ Switch \/ Discard \/ Discarded \/ Rollback
  \/ Crash \/ BeginExit \/ Exit

Spec == Init /\ [][Next]_vars

\* The follower polls, the flusher ticks and CPA goes on with a replacement it
\* began; the disk does not refuse every write for ever.
Fairness ==
  /\ \A i \in Instances : /\ WF_vars(Follow(i)) /\ WF_vars(FlushTick(i))
                          /\ SF_vars(FollowFlush(i) /\ dirty'[i] = FALSE)
  /\ WF_vars(Quiesce \/ QuiesceFails) /\ WF_vars(Register \/ RegisterFails) /\ WF_vars(Adopted)
  /\ WF_vars(Switch \/ Discard) /\ WF_vars(Discarded) /\ WF_vars(Rollback) /\ WF_vars(Exit)

FairSpec == Spec /\ Fairness

----------------------------------------------------------------------------
\* Properties

\* What may be replayed on top of files that hold it.
Twice(r) == r \in torn \/ \E f \in stuck : Count(journal[f], r) > 0

(* No record is billed twice, however replacements, rollbacks, exits and
   crashes follow each other (RELEASE.md:107), except for what a crash
   between a cut and the rename of its journal, or a rename that fails,
   replays (handoff.go:29, 244). *)
BilledAtMostOnce == \A r \in Records : Outcome[r] <= 1 \/ Twice(r)

(* No delivered record goes missing, unless only a crashed memory held it or
   the newer instance could no longer read the old one's line. *)
NothingGoesMissing == \A r \in delivered \ losable : Outcome[r] >= 1

(* The billing of the whole, seen through the ledger CPA ends up with. *)
Once == INSTANCE BillOnce WITH billed <- [r \in Records |-> IF Twice(r) THEN 1 ELSE Outcome[r]]
BillsOnce == Once!Spec

(* What the ledger's files hold they never lose again: only the holder of the
   data directory lock writes them, and no instance, nor one CPA rolls back
   to, writes a ledger that misses a saved record. *)
SavedStaysSaved ==
  [][/\ disk' # disk => owner # None /\ disk' = mem[owner]
     /\ \A r \in Records \ losable' : disk[r] > 0 => disk'[r] > 0]_vars

(* Quiesce, shutdown and adoption wait for the follower and never for ever; and
   a replayed journal is closed in the end although cuts fail: the follower
   retries until it is, unless the rename itself fails, or a quiesce or the end
   of the process intervenes. *)
ReplacementEnds ==
  /\ phase \notin {"run", "down"} ~> phase \in {"run", "down"}
  /\ (phase = "run" /\ owner = active /\ Reads(active, path)) ~> (path = NoFile \/ path \in stuck \/ phase # "run")
=============================================================================
