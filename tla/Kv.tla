--------------------------------- MODULE Kv ---------------------------------
(***************************************************************************)
(* The kv store of a signalling server (stdlib/p2p_match.dlua, its kv      *)
(* part), the kv connector a program reaches it with (connectors/kv), and  *)
(* drt kv, the same from a command line (crates/drt/src/kv.rs).            *)
(*                                                                         *)
(* Programs read a key, add to what they read and put it back with the     *)
(* version they read; one program mirrors the keys under a prefix with     *)
(* kv/list and kv/watch, and one drt kv watch streams them.  Any answer    *)
(* may be lost to its caller, and the server may die after a commit.  A    *)
(* value is the set of the changes it carries; one topic.                  *)
(***************************************************************************)
EXTENDS Integers, Sequences, FiniteSets, SequencesExt

CONSTANTS Keys, Wanted,        \* all keys, and those under the watched prefix
          Progs,               \* programs that compare and set
          KV_EVENTS_KEPT,      \* changes a watcher can resume across
          MaxRevision, MaxTime \* bounds: changes made, the wall clock

VARIABLE kv

Absent  == [value |-> {}, version |-> 0, expires |-> 0]
NoWatch == [on |-> FALSE, from |-> 0, heard |-> <<>>]

\* kv_row: an expired key not yet swept is absent.
Row(s, k) == IF s.rows[k].expires > 0 /\ s.rows[k].expires <= s.wall THEN Absent ELSE s.rows[k]

\* The next expiry, recomputed from the rows.
NextExpiry(rows) ==
    LET all == {rows[k].expires : k \in Keys} \ {0} IN
    IF all = {} THEN 0 ELSE CHOOSE e \in all : \A f \in all : e <= f
-----------------------------------------------------------------------------
\* The changes after a revision that a watcher wants, oldest first.
After(s, since) == SelectSeq([i \in 1..(s.revision - since) |-> since + i],
                             LAMBDA r : s.log[r].key \in Wanted)

\* Mutant: a change just dropped is still thought kept.
TooOldByOne(s, since) == since + 2 < s.oldest

\* kv_since: nothing to say when since is older than what is kept.
TooOld(s, since) == since + 1 < s.oldest

\* The rest of kv_since: those of them still kept.
Since(s, since) == SelectSeq(After(s, since), LAMBDA r : r >= s.oldest)

\* A mirror with one change made to it, and with several.
Changed(mirror, e) == [mirror EXCEPT ![e.key] = IF e.op = "put" THEN e.value ELSE {}]
Caught(s, revs)    == FoldLeft(LAMBDA m, r : Changed(m, s.log[r]), s.watch.mirror, revs)

\* kv_reply_poll, heard by the program or lost.
PollAnswered(s, revs, lost) ==
    [s EXCEPT !.watch = IF lost THEN [@ EXCEPT !.state = "idle"]
                        ELSE [state |-> "idle", rev |-> s.revision, mirror |-> Caught(s, revs)]]

\* kv_notify, of the change just committed.
Notify(s, lost) ==
    LET k == s.log[s.revision].key
        t == IF s.stream.on /\ k \in Wanted
             THEN [s EXCEPT !.stream.heard = Append(@, s.revision)] ELSE s IN
    IF t.watch.state = "held" /\ k \in Wanted THEN PollAnswered(t, <<s.revision>>, lost) ELSE t

\* kv_commit: the row, the revision and the event move together.
Commit(s, op, k, value, expires) ==
    LET r == s.revision + 1 IN
    [s EXCEPT !.revision = r,
              !.rows[k] = IF op = "put" THEN [value |-> value, version |-> r, expires |-> expires] ELSE Absent,
              !.log = Append(@, [op |-> op, key |-> k, value |-> value, fresh |-> Row(s, k) = Absent]),
              !.oldest = IF r - @ + 1 > KV_EVENTS_KEPT THEN @ + 1 ELSE @]

\* kv_open: revision, kept events and next expiry out of the database;
\* streams and held polls are gone.
Reopened(s) ==
    [s EXCEPT !.oldest = IF s.revision > KV_EVENTS_KEPT THEN s.revision - KV_EVENTS_KEPT + 1 ELSE 1,
              !.next = NextExpiry(s.rows), !.stream = NoWatch,
              !.watch.state = IF @ = "held" THEN "idle" ELSE @]
-----------------------------------------------------------------------------
Room    == kv.revision < MaxRevision
Expires == {0} \cup (IF kv.wall < MaxTime THEN {kv.wall + 1} ELSE {})

\* Mutant: version 0 asks for nothing.
ConditionDropped(version) == IF version = 0 THEN <<"any", 0>> ELSE <<"if-match", version>>

\* The header a version becomes.
Condition(version) == IF version = 0 THEN <<"if-none-match", 0>> ELSE <<"if-match", version>>

\* kv_precondition.
Precondition(row, cond) ==
    CASE cond[1] = "if-match" -> row # Absent /\ row.version = cond[2]
      [] cond[1] = "if-none-match" -> row = Absent
      [] OTHER -> TRUE

\* Mutant: the next expiry is only ever found out by a sweep.
PutUnseen(s, k, value, expires) == Commit(s, "put", k, value, expires)

\* kv_put's own part after the commit.
Put(s, k, value, expires) ==
    LET t == Commit(s, "put", k, value, expires) IN
    [t EXCEPT !.next = IF expires > 0 /\ (@ = 0 \/ expires < @) THEN expires ELSE @]

\* What the server does next: tells its watchers, or dies first.
Served(s) == \/ \E lost \in BOOLEAN : kv' = Notify(s, lost)
             \/ kv' = Reopened(s)

\* kv/get.
Get == \E p \in Progs, k \in Wanted :
    kv' = [kv EXCEPT !.prog[p] = [key |-> k, row |-> Row(kv, k)]]

\* kv/put with the version read: stored, or {conflict}.  Either way, and
\* when no answer comes, the program reads again.
ProgPut == \E p \in Progs, expires \in Expires :
    LET at == kv.prog[p]
        s  == [kv EXCEPT !.prog[p] = [key |-> "", row |-> Absent]] IN
    /\ at.key # "" /\ Room
    /\ IF Precondition(Row(kv, at.key), Condition(at.row.version))
       THEN Served(Put(s, at.key, at.row.value \cup {kv.revision + 1}, expires))
       ELSE kv' = s

\* kv/delete with the version read.
Delete == \E p \in Progs :
    LET at == kv.prog[p] IN
    /\ at.key # "" /\ Room
    /\ Precondition(Row(kv, at.key), <<"if-match", at.row.version>>)
    /\ Served(Commit(kv, "delete", at.key, {}, 0))

\* drt kv rm: whatever version is there.
CliRm == \E k \in Keys \ Wanted : Room /\ Row(kv, k) # Absent /\ Served(Commit(kv, "delete", k, {}, 0))

\* drt kv put, over whatever is there.
CliPut == \E k \in Keys \ Wanted, expires \in Expires :
    Room /\ Served(Put(kv, k, {kv.revision + 1}, expires))
-----------------------------------------------------------------------------
\* kv/list under the prefix; the program starts its mirror over.
List == /\ kv.watch.state = "list"
        /\ kv' = [kv EXCEPT !.watch = [state |-> "idle", rev |-> kv.revision,
                                       mirror |-> [k \in Wanted |-> Row(kv, k).value]]]

\* kv/watch: answered at once, told to list again, or held.
Watch == \E lost \in BOOLEAN :
    LET missed == Since(kv, kv.watch.rev) IN
    /\ kv.watch.state = "idle"
    /\ kv' = IF TooOld(kv, kv.watch.rev) THEN [kv EXCEPT !.watch.state = IF lost THEN @ ELSE "list"]
             ELSE IF missed # <<>> THEN PollAnswered(kv, missed, lost)
             ELSE [kv EXCEPT !.watch.state = "held"]

\* kv_housekeep: a held poll's time is up, and it is answered empty.
PollEnds == kv.watch.state = "held" /\ \E lost \in BOOLEAN : kv' = PollAnswered(kv, <<>>, lost)

\* drt kv watch --since: what it missed first, or a reset.
Stream == \E since \in 0..kv.revision :
    /\ ~kv.stream.on
    /\ kv' = [kv EXCEPT !.stream = IF TooOld(kv, since) THEN [on |-> TRUE, from |-> kv.revision, heard |-> <<>>]
                                   ELSE [on |-> TRUE, from |-> since, heard |-> Since(kv, since)]]

StreamEnds == kv.stream.on /\ kv' = [kv EXCEPT !.stream = NoWatch]

\* kv_sweep: the keys that expired leave one by one, each an event; the
\* server may die between two of them.
Due(s) == {k \in Keys : s.rows[k].expires > 0 /\ s.rows[k].expires <= s.wall}

Sweep == \E lost \in BOOLEAN :
    LET due  == SetToSortSeq(Due(kv), LAMBDA j, k : kv.rows[j].expires < kv.rows[k].expires)
        gone == [n \in 0..Len(due) |->
                    FoldLeft(LAMBDA s, k : Notify(Commit(s, "expire", k, {}, 0), lost), kv, SubSeq(due, 1, n))] IN
    /\ kv.next > 0 /\ kv.wall >= kv.next /\ kv.revision + Len(due) <= MaxRevision
    /\ \/ kv' = [gone[Len(due)] EXCEPT !.next = NextExpiry(gone[Len(due)].rows)]
       \/ \E n \in DOMAIN gone : kv' = Reopened(gone[n])

Tick    == kv.wall < MaxTime /\ kv' = [kv EXCEPT !.wall = @ + 1]
Restart == kv' = Reopened(kv)
-----------------------------------------------------------------------------
Init ==
    kv = [rows |-> [k \in Keys |-> Absent], revision |-> 0, log |-> <<>>, oldest |-> 1, next |-> 0, wall |-> 0,
          prog |-> [p \in Progs |-> [key |-> "", row |-> Absent]], stream |-> NoWatch,
          watch |-> [state |-> "list", rev |-> 0, mirror |-> [k \in Wanted |-> {}]]]

Next ==
    \/ Get \/ ProgPut \/ Delete \/ CliPut \/ CliRm
    \/ List \/ Watch \/ PollEnds \/ Stream \/ StreamEnds
    \/ Sweep \/ Tick \/ Restart

Spec == Init /\ [][Next]_kv
-----------------------------------------------------------------------------
(* "version is compare-and-set": of two puts of a program to one key, with *)
(* the key there throughout, the later carries all the earlier did, over   *)
(* every interleaving of reads and writes and every lost answer.           *)
NoneLost ==
    \A i, j \in DOMAIN kv.log :
        LET e == kv.log[i] f == kv.log[j] IN
        (/\ i < j /\ e.key \in Wanted /\ f.key = e.key
         /\ \A m \in i..j : kv.log[m].key = e.key => kv.log[m].op = "put" /\ (m > i => ~kv.log[m].fresh))
        => e.value \subseteq f.value

(* A watcher hears every change: what the program mirrors, with the        *)
(* changes it has not heard of yet made to it, is what the store holds,    *)
(* and a stream has printed each change since it began once and in order.  *)
(* Resets, restarts and answers lost on the way make no difference.        *)
WatchTrue ==
    /\ kv.watch.state # "list" /\ ~TooOld(kv, kv.watch.rev) =>
           \A k \in Wanted : k \notin Due(kv) =>
               Caught(kv, After(kv, kv.watch.rev))[k] = kv.rows[k].value
    /\ kv.stream.on => kv.stream.heard = After(kv, kv.stream.from)

(* A key with a time to live is swept by then: the next look the server    *)
(* means to take is no later than any key's end.                           *)
SweepComes == \A k \in Keys : kv.rows[k].expires > 0 => kv.next > 0 /\ kv.next <= kv.rows[k].expires
=============================================================================
