------------------------------- MODULE Stores -------------------------------
(***************************************************************************)
(* The connectors over a granted directory: host:sql/* (connectors/sql),   *)
(* host:fs/* (connectors/fs) and host:data/* (connectors/data), which uses *)
(* the jail of fs.  A deployment wires one scope for each.                 *)
(*                                                                         *)
(* A database is the writes in it and a file is its size; statements are   *)
(* told apart by what SQLite does with them.  The tree the jail walks is   *)
(* given: which entries are directories, files and links is the            *)
(* operator's doing, and no call of fs makes a link.                       *)
(***************************************************************************)
EXTENDS Integers, Sequences, FiniteSets, SequencesExt

CONSTANTS Dbs, MAX_DBS,      \* database names, and how many may be open
          max_result_rows,
          Paths,             \* paths programs name: sequences of components
          Entries,           \* <<directory, name>> -> what is there, links followed
          Parent,            \* directory -> the one it is in
          Granted,           \* the directories at or below the scope's
          max_bytes,
          MaxWrites          \* bound: rows written, chunks written

VARIABLE store

-----------------------------------------------------------------------------
(* sql.  One connection per database for the whole deployment, opened on   *)
(* first use and never evicted; a transaction lives on the connection.     *)
NoTx == [on |-> FALSE, rows |-> {}]

\* resolve_db: what exists may be opened, the rest only made.
Resolves(d) == d \in store.exist \/ store.writable

\* with_db: cached, or opened within the bound; the connection is kept only
\* when the journal mode asked for is the one SQLite answers.
Opened(d, journal_ok) ==
    IF d \in store.open THEN {store}
    ELSE IF Cardinality(store.open) >= MAX_DBS \/ ~journal_ok THEN {}
    ELSE {[store EXCEPT !.open = @ \cup {d}, !.exist = @ \cup {d}]}

\* What a statement on this connection sees.
Visible(s, d) == s.rows[d] \cup s.tx[d].rows

\* Mutant: rows past the cap are left out.
RowsAnswerCut(rows) ==
    IF Cardinality(rows) > max_result_rows THEN {cut \in SUBSET rows : Cardinality(cut) = max_result_rows} ELSE {rows}

\* The rows loop of sql/query: past the cap the call is refused.
RowsAnswer(rows) == IF Cardinality(rows) > max_result_rows THEN {} ELSE {rows}

\* What SQLite does with a statement: begin, commit and rollback count as
\* reading, so both calls take them, and fail outside their place.
Control(s, d, stmt) ==
    CASE stmt = "begin" /\ ~s.tx[d].on -> {[s EXCEPT !.tx[d] = [on |-> TRUE, rows |-> {}]]}
      [] stmt = "commit" /\ s.tx[d].on -> {[s EXCEPT !.rows[d] = @ \cup s.tx[d].rows, !.tx[d] = NoTx]}
      [] stmt = "rollback" /\ s.tx[d].on ->
             {[s EXCEPT !.undone = @ \cup s.tx[d].rows, !.tx[d] = NoTx]}
      [] OTHER -> {}

Running == store.fate = "running" /\ store.kind = "sql"

SqlQuery == \E d \in Dbs, journal_ok \in BOOLEAN :
    /\ Running /\ Resolves(d)
    /\ \E s \in Opened(d, journal_ok) :
        \/ \E t \in UNION {Control(s, d, stmt) : stmt \in {"begin", "commit", "rollback"}} : store' = t
        \/ \E rows \in RowsAnswer(Visible(s, d)) :
               store' = [s EXCEPT !.asked = [rows |-> rows, of |-> Visible(s, d)]]

\* sql/exec, where the scope is readwrite: a row written is answered ok, in
\* or out of a transaction.
SqlExec == \E d \in Dbs, journal_ok \in BOOLEAN :
    /\ Running /\ store.writable /\ Resolves(d)
    /\ \E s \in Opened(d, journal_ok) :
        \/ \E t \in UNION {Control(s, d, stmt) : stmt \in {"begin", "commit", "rollback"}} : store' = t
        \/ LET row == Cardinality(s.ok) + 1 IN
           /\ row <= MaxWrites
           /\ store' = [(IF s.tx[d].on THEN [s EXCEPT !.tx[d].rows = @ \cup {row}]
                         ELSE [s EXCEPT !.rows[d] = @ \cup {row}])
                        EXCEPT !.ok = @ \cup {<<d, row>>}]

Ends(s, named, fate) == [s EXCEPT !.tx = [d \in Dbs |-> NoTx], !.named = named, !.fate = fate]

\* Mutant: asked after the rollback, every connection is in autocommit.
FinishNamesFailed ==
    Running /\ \E failed \in SUBSET {d \in store.open : store.tx[d].on} : store' = Ends(store, failed, "finished")

\* finish: each transaction still open is rolled back and named, whether or
\* not the rollback itself works.
Finish == Running /\ store' = Ends(store, {d \in store.open : store.tx[d].on}, "finished")

\* The process is killed, and SQLite rolls back on the next open.
Killed == Running /\ store' = Ends(store, {}, "killed")
-----------------------------------------------------------------------------
(* fs and data.  A place is <<directory>>, or <<directory, name>> for a    *)
(* file.                                                                   *)
NoPlace == <<>>

\* lexically_within: no prefix of the path climbs above its start.
LexicallyWithin(path) ==
    \A n \in 1..Len(path) : 2 * Cardinality({i \in 1..n : path[i] = ".."}) <= n

\* canonicalize: component by component, links followed.
Step(place, c) ==
    IF Len(place) # 1 THEN NoPlace
    ELSE IF c = ".." THEN <<Parent[place[1]]>>
    ELSE IF <<place[1], c>> \in DOMAIN Entries THEN Entries[<<place[1], c>>] ELSE NoPlace

Canonicalize(path) == FoldLeft(Step, <<"scope">>, path)

Within(place) == place # NoPlace /\ place[1] \in Granted

\* Mutant: the lexical look is enough.
ResolveLexically(path, must_exist) ==
    IF path = <<>> \/ ~LexicallyWithin(path) THEN NoPlace
    ELSE IF must_exist THEN Canonicalize(path)
    ELSE IF Len(Canonicalize(Front(path))) # 1 \/ Last(path) = ".." THEN NoPlace
    ELSE Append(Canonicalize(Front(path)), Last(path))

\* FsScope::resolve: lexically, then where it really is; for a write, where
\* the directory it is in really is.
Resolve(path, must_exist) ==
    LET place == ResolveLexically(path, must_exist) IN
    IF Within(place) THEN place ELSE NoPlace

\* Where the filesystem itself goes for a path that is resolved.
Target(f) == IF f \in DOMAIN Entries THEN Entries[f] ELSE f

Files == store.kind = "fs"
Size(f) == IF f \in DOMAIN store.size THEN store.size[f] ELSE 0
Touch(s, op, place) == [s EXCEPT !.touched = [op |-> op, place |-> place]]

\* Reading whole a file no larger than the cap.
Loaded(path, op) ==
    LET f == Resolve(path, TRUE) IN
    Files /\ f \in DOMAIN store.size /\ store.size[f] <= max_bytes /\ store' = Touch(store, op, f)

\* fs/read, and the slurp of data/read_parquet and data/read_csv.
Read  == \E path \in Paths : Loaded(path, "read")
Slurp == \E path \in Paths : Loaded(path, "slurp")

\* Mutant: an append is measured by what it adds.
GrowthAdded(f, append, n) == n

\* How large fs/write would leave the file.
Growth(f, append, n) == (IF append THEN Size(f) ELSE 0) + n

Sized(s, f, n) == [s EXCEPT !.size = [g \in DOMAIN s.size \cup {f} |-> IF g = f THEN n ELSE s.size[g]]]

Write == \E path \in Paths, append \in BOOLEAN, n \in 1..max_bytes + 1 :
    LET place == Resolve(path, FALSE)
        f     == Target(place) IN
    /\ Files /\ store.writable /\ Len(f) = 2
    /\ Growth(f, append, n) <= max_bytes
    /\ store' = Sized(Touch(store, "write", place), f, (IF append THEN Size(f) ELSE 0) + n)

\* data/write_*: encoded off the drive loop, and spilled when it is done.
Encode == \E path \in Paths, n \in 1..max_bytes + 1 :
    Files /\ store.writable /\ Cardinality(store.encoding) < MaxWrites
          /\ store' = [store EXCEPT !.encoding = @ \cup {<<path, n>>}]

Spill == \E e \in store.encoding :
    LET place == Resolve(e[1], FALSE)
        f     == Target(place)
        s     == [store EXCEPT !.encoding = @ \ {e}] IN
    store' = IF e[2] <= max_bytes /\ Len(f) = 2 THEN Sized(Touch(s, "write", place), f, e[2]) ELSE s

\* fs/list and fs/remove; the file removed is the one the path led to.
ListDir == \E path \in Paths :
    LET d == IF path = <<>> THEN <<"scope">> ELSE Resolve(path, TRUE) IN
    Files /\ Len(d) = 1 /\ store' = Touch(store, "list", d)

RemoveFile == \E path \in Paths :
    LET f == Resolve(path, TRUE) IN
    /\ Files /\ store.writable /\ f \in DOMAIN store.size
    /\ store' = [Touch(store, "remove", f) EXCEPT !.size = [g \in DOMAIN @ \ {f} |-> @[g]]]
-----------------------------------------------------------------------------
Init == \E kind \in {"sql", "fs"}, writable \in BOOLEAN, exist \in SUBSET Dbs :
    /\ kind = "fs" => exist = {}
    /\ store = [kind |-> kind, writable |-> writable, fate |-> "running", exist |-> exist, open |-> {},
                rows |-> [d \in Dbs |-> {}], tx |-> [d \in Dbs |-> NoTx], ok |-> {}, undone |-> {}, named |-> {},
                asked |-> [rows |-> {}, of |-> {}],
                size |-> [f \in {Entries[e] : e \in {e \in DOMAIN Entries : Len(Entries[e]) = 2}} |-> 1],
                encoding |-> {}, touched |-> [op |-> "none", place |-> <<"scope">>]]

Next == SqlQuery \/ SqlExec \/ Finish \/ Killed \/ Read \/ Slurp \/ Write \/ Encode \/ Spill \/ ListDir \/ RemoveFile
Spec == Init /\ [][Next]_store
-----------------------------------------------------------------------------
(* finish: "a transaction still open when the process ends is rolled back  *)
(* by name rather than silently": when a deployment that wound down is     *)
(* over, every row a program was told ok of is in the database, was rolled *)
(* back by a program, or is in a database finish named.                    *)
LossNamed ==
    store.fate = "finished" =>
        \A w \in store.ok : w[2] \in store.rows[w[1]] \cup store.undone \/ w[1] \in store.named

(* "The row cap refuses rather than truncates": an answered query is all   *)
(* the rows it asked for.                                                  *)
RowsWhole == store.asked.rows = store.asked.of

(* The jail: whatever links a path runs through, what is read, listed and  *)
(* removed, and the directory written into, is inside the grant.           *)
Jailed == Within(store.touched.place)

(* The cap is on a file, both directions: no sequence of writes, appends   *)
(* and spills makes a file larger than it.                                 *)
CapHeld == \A f \in DOMAIN store.size : store.size[f] <= max_bytes
=============================================================================
