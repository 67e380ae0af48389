------------------------------- MODULE Rebuild -------------------------------
(***************************************************************************)
(* LocalStateStore's directories and checkpoint files on disk against a    *)
(* changelog partition that the broker compacts: restore, _drain, forget   *)
(* and the delivery callback of consumer/state.py, for one partition       *)
(* number under at_least_once (exactly_once refuses checkpoints).          *)
(*                                                                         *)
(* ConsumerGroup rebuilds in one step from a compacted map; here offsets,  *)
(* gaps and the files that outlive the process are the subject.  A write   *)
(* is known by its stamp.  The stamp of a deleted order is kept in the     *)
(* model's directory for the properties; no action reads it.               *)
(***************************************************************************)
EXTENDS Naturals, Sequences, FiniteSets

CONSTANTS
  Members, NoMember,
  Orders,
  Modes,             \* member |-> the values STATE_REBUILD takes from start to start
  None,              \* no checkpoint file, no mark
  MaxWrites,         \* bound: fold writes and deletes
  MaxDisruptions,    \* bound: crashes, evictions, failed rebuilds, deliveries, file writes
  MaxEvents          \* bound: both together

ASSUME RebuildAssumption ==
  /\ NoMember \notin Members
  /\ Modes \in [Members -> (SUBSET {"full", "checkpoint"}) \ {{}}]
  /\ None \notin Nat
  /\ MaxWrites \in Nat /\ MaxDisruptions \in Nat /\ MaxEvents \in Nat

-----------------------------------------------------------------------------
VARIABLES
  owner,       \* group coordinator: the member the partition number is assigned to
  changelog,   \* broker: every record ever appended
  cleaned,     \* broker: the offsets compaction has removed
  pc,          \* member |-> "down", "idle", "drain" or "work"
  mode,        \* member |-> its STATE_REBUILD
  disk,        \* member |-> order |-> what its directory holds
  checkpoint,  \* member |-> the offset in its .ckpt file
  mark,        \* member |-> _position
  next,        \* member |-> _drain's next_offset
  high,        \* member |-> the watermark its rebuild reads to
  unsent,      \* member |-> its producer's undelivered records, oldest first
  writes, disruptions,
  straggled,   \* history: were records left under way when the partition was lost?
  outlived,    \* history: members whose directory will not see an expired null
  overstated   \* history: members whose rebuild ended short of what their file says

broker == <<changelog, cleaned, straggled, outlived, overstated>>
vars == <<owner, broker, pc, mode, disk, checkpoint, mark, next, high, unsent, writes,
          disruptions>>

Content == [stamp : Nat, live : BOOLEAN]
Record == [order : Orders, stamp : Nat, live : BOOLEAN]

Absent == [stamp |-> 0, live |-> FALSE]
Empty == [k \in Orders |-> Absent]
ContentOf(r) == [stamp |-> r.stamp, live |-> r.live]

InBounds == writes + disruptions < MaxEvents

Disrupt ==
  /\ disruptions < MaxDisruptions /\ InBounds
  /\ disruptions' = disruptions + 1

Goto(m, label) == pc' = [pc EXCEPT ![m] = label]

\* The locals of a rebuild are gone.
Returned(m) ==
  /\ next' = [next EXCEPT ![m] = 0]
  /\ high' = [high EXCEPT ![m] = 0]

-----------------------------------------------------------------------------
(* Membership and the process.                                             *)

\* The rebuild ends at next, with that in the checkpoint file: does the file say more?
CutShort(m, file) ==
  overstated' = IF pc[m] = "drain" /\ file # None /\ file > next[m]
                THEN overstated \cup {m} ELSE overstated

\* main(): a new process and LocalStateStore over whatever the state directory holds,
\* after a crash, a failed rebuild, or a stop (close() is the forget of GiveUp).
Start(m, setting) ==
  /\ owner # m
  /\ pc[m] \in {"down", "idle"} /\ unsent[m] = << >>
  /\ mode' = [mode EXCEPT ![m] = setting]
  /\ mark' = [mark EXCEPT ![m] = None]
  /\ Goto(m, "idle")
  /\ UNCHANGED <<owner, broker, disk, checkpoint, next, high, unsent, writes, disruptions>>

\* SIGKILL, at any point, also while a process that ends waits for its last records.
\* The directory and the checkpoint file stay.
Crash(m) ==
  /\ pc[m] # "down" \/ unsent[m] # << >>
  /\ Disrupt
  /\ Goto(m, "down")
  /\ unsent' = [unsent EXCEPT ![m] = << >>]
  /\ mark' = [mark EXCEPT ![m] = None]
  /\ Returned(m)
  /\ CutShort(m, checkpoint[m])
  /\ UNCHANGED <<owner, changelog, cleaned, straggled, outlived, mode, disk, checkpoint, writes>>

\* The coordinator stops hearing from a member: one that is down, or one that works or
\* rebuilds for longer than max.poll.interval.ms, and does not notice.
Evict(m) ==
  /\ owner = m
  /\ \/ pc[m] = "down" /\ UNCHANGED disruptions
     \/ pc[m] \in {"work", "drain"} /\ Disrupt
  /\ owner' = NoMember
  /\ UNCHANGED <<broker, pc, mode, disk, checkpoint, mark, next, high, unsent, writes>>

\* Mutant: the checkpoint is one past the mark.
checkpointed_ahead(m) == IF mark[m] = None THEN checkpoint[m] ELSE mark[m] + 1

\* _write_checkpoint: what the file says afterwards.
checkpointed(m) == IF mark[m] = None THEN checkpoint[m] ELSE mark[m]

\* forget: flush, checkpoint, close, whoever owns the partition by now.  The flush may
\* give up, which is ignored; the directory stays.
Forget(m, label) ==
  /\ owner' = IF owner = m THEN NoMember ELSE owner
  /\ Goto(m, label)
  /\ straggled' = (straggled \/ unsent[m] # << >>)

\* _write_checkpoint, with a flush that gave up or a file that may not be written: it then
\* is the old one, or truncated.
Files(m) == {checkpointed(m), checkpoint[m], None}

\* _on_revoke of the owner, _on_lost of an evicted member, and close().
GiveUp(m) ==
  /\ pc[m] = "work"
  /\ Forget(m, "idle")
  /\ \/ /\ unsent[m] = << >> /\ UNCHANGED disruptions
        /\ checkpoint' = [checkpoint EXCEPT ![m] = checkpointed(m)]
     \/ /\ Disrupt
        /\ \E file \in Files(m) : checkpoint' = [checkpoint EXCEPT ![m] = file]
  /\ UNCHANGED <<changelog, cleaned, outlived, overstated, mode, disk, mark, next, high, unsent,
                 writes>>

-----------------------------------------------------------------------------
(* The rebuild.                                                            *)

\* Mutant: the directory is kept although nothing says how far it got.
kept_on_disk(m) == disk[m]

\* _start_offset: from the checkpoint over the directory as it is ...
resumes(m) == mode[m] = "checkpoint" /\ checkpoint[m] # None

\* ... or from the beginning, over an empty one (_destroy).  The checkpoint file of
\* the destroyed directory stays.
kept(m) == IF resumes(m) THEN disk[m] ELSE Empty

\* _on_assign, restore, _restore_one: the watermark is read once, then the directory is
\* opened.
Assign(m) ==
  /\ owner = NoMember /\ pc[m] = "idle"
  /\ owner' = m
  /\ high' = [high EXCEPT ![m] = Len(changelog)]
  /\ next' = [next EXCEPT ![m] = IF resumes(m) THEN checkpoint[m] ELSE 0]
  /\ disk' = [disk EXCEPT ![m] = kept(m)]
  /\ outlived' = IF resumes(m) THEN outlived ELSE outlived \ {m}
  /\ overstated' = IF resumes(m) THEN overstated ELSE overstated \ {m}
  /\ Goto(m, "drain")
  /\ UNCHANGED <<changelog, cleaned, straggled, mode, checkpoint, mark, unsent, writes, disruptions>>

\* Mutant: a null value is passed over.
replay_skipping_nulls(held, r) ==
  IF r.live THEN [held EXCEPT ![r.order] = ContentOf(r)] ELSE held

\* One record of _drain: stored, or if null deleted.
replay(held, r) == [held EXCEPT ![r.order] = ContentOf(r)]

\* The offsets from `start` on that are still there.
Remaining(start) == {o \in start .. Len(changelog) - 1 : o \notin cleaned}

\* _drain: the reader's next record, which may lie past the watermark if compaction
\* has removed the ones below.
Drain(m) ==
  /\ pc[m] = "drain" /\ next[m] < high[m]
  /\ \E o \in Remaining(next[m]) :
       /\ \A p \in Remaining(next[m]) : o <= p
       /\ disk' = [disk EXCEPT ![m] = replay(@, changelog[o + 1])]
       /\ next' = [next EXCEPT ![m] = o + 1]
  /\ UNCHANGED <<owner, broker, pc, mode, checkpoint, mark, high, unsent, writes, disruptions>>

\* _drain raises: the reader stalls or reports an error, or the engine does.  The store is
\* open, so that close() on the way out of the process forgets it: what is written is
\* the mark of an earlier assignment, if there was one.
DrainFails(m) ==
  /\ pc[m] = "drain" /\ next[m] < high[m] /\ Disrupt
  /\ Forget(m, "down")
  /\ \E file \in Files(m) :
       /\ checkpoint' = [checkpoint EXCEPT ![m] = file]
       /\ CutShort(m, file)
  /\ mark' = [mark EXCEPT ![m] = None]
  /\ Returned(m)
  /\ UNCHANGED <<changelog, cleaned, outlived, mode, disk, unsent, writes>>

Drained(m) == pc[m] = "drain" /\ next[m] >= high[m]

Restored(m) ==
  /\ Drained(m)
  /\ mark' = [mark EXCEPT ![m] = high[m]]
  /\ Goto(m, "work")
  /\ Returned(m)
  /\ UNCHANGED <<owner, broker, mode, disk, checkpoint, unsent, writes, disruptions>>

-----------------------------------------------------------------------------
(* Writing.                                                                *)

\* save and delete: the local write, then the record is enqueued.
Write(m, k, live) ==
  LET r == [order |-> k, stamp |-> writes + 1, live |-> live] IN
    /\ pc[m] = "work" /\ writes < MaxWrites /\ InBounds
    /\ disk' = [disk EXCEPT ![m][k] = ContentOf(r)]
    /\ unsent' = [unsent EXCEPT ![m] = Append(@, r)]
    /\ writes' = writes + 1
    /\ UNCHANGED <<owner, broker, pc, mode, checkpoint, mark, next, high, disruptions>>

Land(m) ==
  /\ unsent[m] # << >>
  /\ changelog' = Append(changelog, Head(unsent[m]))
  /\ straggled' = (straggled \/ owner # m)
  /\ unsent' = [unsent EXCEPT ![m] = Tail(@)]
  /\ UNCHANGED <<owner, cleaned, outlived, overstated, pc, mode, disk, checkpoint, next, high,
                 writes>>

\* on_delivery.
Deliver(m) ==
  /\ Land(m)
  /\ mark' = [mark EXCEPT ![m] =
       IF @ = None \/ @ <= Len(changelog) THEN Len(changelog) + 1 ELSE @]
  /\ UNCHANGED disruptions

\* A delivery is reported as failed: logged only.  The record may have landed.
DeliveryFails(m) ==
  /\ unsent[m] # << >> /\ Disrupt
  /\ \/ Land(m)
     \/ /\ unsent' = [unsent EXCEPT ![m] = Tail(@)]
        /\ UNCHANGED <<owner, broker, pc, mode, disk, checkpoint, next, high, writes>>
  /\ UNCHANGED mark

\* A rebuild under way is yet to read offset o; it takes less than delete.retention.ms.
Awaited(o) == \E m \in Members : pc[m] = "drain" /\ next[m] <= o

\* Members that may resume at or before offset o, from a checkpoint written or to come.
Behind(o) ==
  {m \in Members : \E mine \in {checkpoint[m], mark[m]} \ {None} : mine <= o}

Compacted(o) ==
  /\ cleaned' = cleaned \cup {o}
  /\ UNCHANGED <<owner, changelog, straggled, overstated, pc, mode, disk, checkpoint, mark, next,
                 high, unsent, writes, disruptions>>

\* The cleaner removes what a later record of the key supersedes ...
Compact(o) ==
  /\ o \in Remaining(0)
  /\ \E p \in (o + 1) .. Len(changelog) - 1 : changelog[p + 1].order = changelog[o + 1].order
  /\ Compacted(o)
  /\ UNCHANGED outlived

\* ... and a null whose retention is over, once nothing of the key is left before it;
\* never in the active segment, which holds the last record.
Expire(o) ==
  /\ o \in Remaining(0) /\ o < Len(changelog) - 1 /\ ~ changelog[o + 1].live
  /\ \A p \in Remaining(0) : p < o => changelog[p + 1].order # changelog[o + 1].order
  /\ ~ Awaited(o)
  /\ Compacted(o)
  /\ outlived' = outlived \cup Behind(o)

-----------------------------------------------------------------------------
Init ==
  /\ owner = NoMember
  /\ changelog = << >>
  /\ cleaned = {}
  /\ straggled = FALSE /\ outlived = {} /\ overstated = {}
  /\ pc = [m \in Members |-> "idle"]
  /\ mode \in {f \in [Members -> {"full", "checkpoint"}] : \A m \in Members : f[m] \in Modes[m]}
  /\ disk = [m \in Members |-> Empty]
  /\ checkpoint = [m \in Members |-> None]
  /\ mark = [m \in Members |-> None]
  /\ next = [m \in Members |-> 0]
  /\ high = [m \in Members |-> 0]
  /\ unsent = [m \in Members |-> << >>]
  /\ writes = 0
  /\ disruptions = 0

Next ==
  \/ \E m \in Members :
       \/ \E setting \in Modes[m] : Start(m, setting)
       \/ Crash(m) \/ Evict(m) \/ GiveUp(m)
       \/ Assign(m) \/ Drain(m) \/ DrainFails(m) \/ Restored(m)
       \/ \E k \in Orders, live \in BOOLEAN : Write(m, k, live)
       \/ Deliver(m) \/ DeliveryFails(m)
  \/ \E o \in 0 .. Len(changelog) : Compact(o) \/ Expire(o)

Spec == Init /\ [][Next]_vars

-----------------------------------------------------------------------------
(* Properties.                                                             *)

\* Type correctness; offsets on disk and in memory are offsets of the changelog.
TypeOK ==
  /\ owner \in Members \cup {NoMember}
  /\ changelog \in Seq(Record)
  /\ cleaned \subseteq 0 .. Len(changelog)
  /\ straggled \in BOOLEAN /\ outlived \subseteq Members /\ overstated \subseteq Members
  /\ pc \in [Members -> {"down", "idle", "drain", "work"}]
  /\ mode \in [Members -> {"full", "checkpoint"}]
  /\ disk \in [Members -> [Orders -> Content]]
  /\ checkpoint \in [Members -> (0 .. Len(changelog)) \cup {None}]
  /\ mark \in [Members -> (0 .. Len(changelog)) \cup {None}]
  /\ next \in [Members -> 0 .. Len(changelog)]
  /\ high \in [Members -> 0 .. Len(changelog)]
  /\ unsent \in [Members -> Seq(Record)]
  /\ writes \in 0 .. MaxWrites
  /\ disruptions \in 0 .. MaxDisruptions

\* What the group had folded of an order in the first `end` records, removed or not.
TableAt(k, end) ==
  LET of == {i \in 1 .. end : changelog[i].order = k} IN
    IF of = {} THEN Absent
    ELSE ContentOf(changelog[CHOOSE i \in of : \A j \in of : j <= i])

\* Same as the other: both absent, or both the same write.
Same(a, b) == a.live = b.live /\ (a.live => a.stamp = b.stamp)

\* No rebuild ends with a store behind the changelog (R7.7): for each order it has the
\* last fold, or a later write of its own that never reached the broker, unless the order
\* was written again by whoever took over from an evicted member.  Whatever the
\* checkpoint let it skip, whatever the cleaner removed meanwhile, and however often a
\* rebuild crashed, failed or was outlasted by an eviction, with three exceptions: a former
\* holder wrote (R7.12), the directory was away longer than delete.retention.ms, or an
\* earlier rebuild ended short of the offset its checkpoint file then said.
RebuildIsCurrent ==
  \A m \in Members : Drained(m) /\ ~ straggled /\ m \notin outlived \cup overstated =>
    \A k \in Orders :
      \/ Same(disk[m][k], TableAt(k, next[m]))
      \/ disk[m][k].stamp > TableAt(k, next[m]).stamp
      \/ \E i \in next[m] + 1 .. Len(changelog) : changelog[i].order = k

\* A full rebuild ends with exactly the changelog (R7.9), whoever wrote to it: of an order
\* that no late record has reached since the watermark was read, nothing is missing and
\* nothing is left of an earlier life of the directory, not even a write the broker
\* never received.
FullRebuildIsExact ==
  \A m \in Members : Drained(m) /\ ~ resumes(m) =>
    \A k \in Orders :
      \/ Same(disk[m][k], TableAt(k, next[m]))
      \/ \E i \in next[m] + 1 .. Len(changelog) : changelog[i].order = k
=============================================================================
