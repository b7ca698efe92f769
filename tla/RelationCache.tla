--------------------------- MODULE RelationCache ---------------------------
(***************************************************************************)
(* relation_cache.zig: what one invocation remembers of the database's     *)
(* catalog, shared by the sessions of its workers, and the calls the       *)
(* native drivers and adapter.zig make to keep it right.                   *)
(*                                                                         *)
(* A lookup that misses notes the generation, asks the catalog, and stores *)
(* the answer if nothing invalidated the cache meanwhile.  Every script    *)
(* that may write is bracketed by beginWrite and endWrite, and a bracket   *)
(* stays open as long as the transaction it wrote in.  While any bracket   *)
(* is open nothing is answered from the cache and nothing is stored.       *)
(*                                                                         *)
(* Each critical section of the cache's mutex is one step, and so is each  *)
(* statement of a script.  All sessions have the same scope.  SQL is       *)
(* abstracted to what classify tells apart: reads, writes of the catalog,  *)
(* begin, commit and rollback.                                             *)
(***************************************************************************)
EXTENDS Naturals, Sequences, FiniteSets

CONSTANTS Sessions, Nobody,
          Relations, Schemas,             \* a schema is a set of relations
          Kinds, Absent, Unknown,         \* what a relation is; none; not cached
          Drivers,                        \* subset of {"duckdb", "postgres"}
          Scripts,                        \* what is sent in one query
          Adapted,                        \* <<tx, script>>: its parameters go into the text
          LoseAt,                         \* brackets held when connections may break
          Populate,                       \* --populate-cache
          MaxGeneration                   \* bound: no query starts after it

Verbs == {"read", "write", "begin", "commit", "rollback"}
Values == Kinds \cup {Absent}
Keys == {"kind", "columns"} \X Relations

ASSUME CacheAssumption ==
  /\ IsFiniteSet(Sessions) /\ Nobody \notin Sessions /\ Relations # {}
  /\ Unknown \notin Values
  /\ \A S \in Schemas : S \subseteq Relations
  /\ Scripts \subseteq Seq(Verbs)
  /\ Drivers \subseteq {"duckdb", "postgres"}
  /\ Adapted \subseteq {"none", "open", "aborted"} \X Scripts
  /\ LoseAt \subseteq 0..2 /\ Populate \in BOOLEAN
  /\ MaxGeneration \in Nat

VARIABLES
  driver,                    \* the adapter: fixed for the invocation
  catalog,                   \* the committed catalog of the database
  tx, own,                   \* a session's transaction and what it wrote in it
  cached, listed,            \* the entries; the schemas listed completely
  generation, activeWrites,
  warmed, warmer,            \* the scope was warmed; who holds warm_mutex
  open, writes,              \* Context.transaction_open, write_transaction
  pc,                        \* where a session is
  script, change, ok, calls, \* statements left, their Change, success, brackets
  key, asked, seen,          \* a fill: what for, at which generation, the answer
  todo, schema, rows         \* a warming: schemas left, the listed one, its rows

database == <<driver, catalog, tx, own>>
cache == <<cached, listed, generation, activeWrites>>
warming == <<warmed, warmer, todo, schema, rows>>
context == <<open, writes>>
query == <<script, change, ok, calls>>
fill == <<key, asked, seen>>
vars == <<database, cache, warming, context, pc, query, fill>>

Nothing == [r \in Relations |-> Unknown]
AnyKey == CHOOSE k \in Keys : TRUE
NoChange == [write |-> FALSE, begins |-> FALSE, ends |-> FALSE]

Init ==
  /\ driver \in Drivers
  /\ catalog \in [Relations -> Values]
  /\ tx = [s \in Sessions |-> "none"]
  /\ own = [s \in Sessions |-> Nothing]
  /\ cached = [k \in Keys |-> Unknown] /\ listed = {}
  /\ generation = 0 /\ activeWrites = 0
  /\ warmed = FALSE /\ warmer = Nobody
  /\ open = [s \in Sessions |-> FALSE] /\ writes = [s \in Sessions |-> FALSE]
  /\ pc = [s \in Sessions |-> "closed"]
  /\ script = [s \in Sessions |-> <<>>] /\ change = [s \in Sessions |-> NoChange]
  /\ ok = [s \in Sessions |-> TRUE] /\ calls = [s \in Sessions |-> 0]
  /\ key = [s \in Sessions |-> AnyKey]
  /\ asked = [s \in Sessions |-> 0] /\ seen = [s \in Sessions |-> Nothing]
  /\ todo = [s \in Sessions |-> {}] /\ schema = [s \in Sessions |-> {}]
  /\ rows = [s \in Sessions |-> {}]

Goto(s, p) == pc' = [pc EXCEPT ![s] = p]

\* Locals that went out of scope.
Forget(s) ==
  /\ key' = [key EXCEPT ![s] = AnyKey]
  /\ asked' = [asked EXCEPT ![s] = 0]
  /\ seen' = [seen EXCEPT ![s] = Nothing]

-----------------------------------------------------------------------------
(* The cache: critical sections of its mutex. *)

Invalidate ==
  /\ generation' = generation + 1
  /\ cached' = [k \in Keys |-> Unknown]
  /\ listed' = {}

BeginWrite == activeWrites' = activeWrites + 1 /\ Invalidate
EndWrite == activeWrites' = activeWrites - 1 /\ Invalidate

Fresh(s) == activeWrites = 0 /\ generation = asked[s]

\* putRelation, putColumns
Put(s, k, value) ==
  /\ cached' = IF Fresh(s) /\ cached[k] = Unknown THEN [cached EXCEPT ![k] = value] ELSE cached
  /\ UNCHANGED <<listed, generation, activeWrites>>

IsListed(k) == k[1] = "kind" /\ \E S \in listed : k[2] \in S

\* lookup, getColumns: the columns of a relation are not known from a listing.
Found(k) == activeWrites = 0 /\ (cached[k] # Unknown \/ IsListed(k))
Answer(k) == IF cached[k] # Unknown THEN cached[k] ELSE Absent

Usable(s) == ~open[s]

-----------------------------------------------------------------------------
(* The scripts a session runs, and the brackets around them. *)

Ending(sc, i) == sc[i] \in {"commit", "rollback"}

\* A later begin reopens what an earlier commit ended.
Ends(sc) ==
  \E i \in 1..Len(sc) : Ending(sc, i) /\ \A k \in i+1..Len(sc) : sc[k] # "begin"

Classify(sc) ==
  [write  |-> \E i \in 1..Len(sc) : sc[i] = "write",
   begins |-> \E i \in 1..Len(sc) : sc[i] = "begin",
   ends   |-> Ends(sc)]

\* Context.before
Before(s, ch) == IF ch.write /\ ~writes[s] THEN BeginWrite ELSE UNCHANGED cache

\* Mutation: a script outside a transaction keeps its bracket.
SettleOnlyOpen(s, final) ==
  /\ open' = [open EXCEPT ![s] = final]
  /\ writes' = [writes EXCEPT ![s] = final /\ (writes[s] \/ change[s].write)]
  /\ IF ~final /\ writes[s] THEN EndWrite ELSE UNCHANGED cache

\* Context.afterTransaction: a bracket is handed to the transaction, or closed.
Settle(s, final) ==
  /\ open' = [open EXCEPT ![s] = final]
  /\ writes' = [writes EXCEPT ![s] = final /\ (writes[s] \/ change[s].write)]
  /\ IF ~final /\ (writes[s] \/ change[s].write) THEN EndWrite ELSE UNCHANGED cache

\* queryParameters, inside its own bracket, may put the parameters into the
\* text and call query, which brackets the script again.
StartQuery(s) ==
  /\ pc[s] = "idle" /\ generation < MaxGeneration
  /\ \E sc \in Scripts :
     /\ script' = [script EXCEPT ![s] = sc]
     /\ change' = [change EXCEPT ![s] = Classify(sc)]
     /\ Before(s, Classify(sc))
     /\ \/ Goto(s, "running")
        \/ <<tx[s], sc>> \in Adapted /\ driver = "postgres" /\ Goto(s, "adapting")
  /\ ok' = [ok EXCEPT ![s] = TRUE]
  /\ calls' = [calls EXCEPT ![s] = 1]
  /\ UNCHANGED <<database, warming, context, fill>>

StartNested(s) ==
  /\ pc[s] = "adapting"
  /\ Before(s, change[s])
  /\ calls' = [calls EXCEPT ![s] = 2]
  /\ Goto(s, "running")
  /\ UNCHANGED <<database, warming, context, script, change, ok, fill>>

-----------------------------------------------------------------------------
(* The database.  DuckDB commits each statement outside a transaction; in  *)
(* PostgreSQL a script outside one is a transaction of its own.            *)

Merge(s) == [r \in Relations |-> IF own[s][r] = Unknown THEN catalog[r] ELSE own[s][r]]
Discard(s) == own' = [own EXCEPT ![s] = Nothing]
ToTx(s, t) == tx' = [tx EXCEPT ![s] = t]

DoRead(s) == tx[s] \in {"none", "open"} /\ UNCHANGED <<catalog, tx, own>>

DoWrite(s) ==
  /\ tx[s] \in {"none", "open"}
  /\ \E r \in Relations, v \in Values :
       IF driver = "duckdb" /\ tx[s] = "none"
       THEN catalog' = [catalog EXCEPT ![r] = v] /\ UNCHANGED own
       ELSE own' = [own EXCEPT ![s][r] = v] /\ UNCHANGED catalog
  /\ UNCHANGED tx

DoBegin(s) ==
  /\ tx[s] = "none" \/ (driver = "postgres" /\ tx[s] = "open")
  /\ ToTx(s, "open")
  /\ UNCHANGED <<catalog, own>>

DoCommit(s) ==
  /\ \/ tx[s] = "open" /\ catalog' = Merge(s)
     \/ driver = "postgres" /\ tx[s] = "none" /\ catalog' = Merge(s)
     \/ driver = "postgres" /\ tx[s] = "aborted" /\ UNCHANGED catalog
  /\ ToTx(s, "none") /\ Discard(s)

DoRollback(s) ==
  /\ tx[s] \in {"open", "aborted"} \/ (driver = "postgres" /\ tx[s] = "none")
  /\ ToTx(s, "none") /\ Discard(s)
  /\ UNCHANGED catalog

Statement(s) ==
  /\ pc[s] = "running" /\ script[s] # <<>>
  /\ CASE Head(script[s]) = "read"     -> DoRead(s)
       [] Head(script[s]) = "write"    -> DoWrite(s)
       [] Head(script[s]) = "begin"    -> DoBegin(s)
       [] Head(script[s]) = "commit"   -> DoCommit(s)
       [] Head(script[s]) = "rollback" -> DoRollback(s)
  /\ script' = [script EXCEPT ![s] = Tail(script[s])]
  /\ UNCHANGED <<driver, cache, warming, context, pc, change, ok, calls, fill>>

\* An error ends the script.  It may leave a transaction as it was (DuckDB, if
\* nothing was executed), abort it, end it (a commit that fails), or lose the
\* connection with it.
StatementFails(s) ==
  /\ pc[s] = "running" /\ script[s] # <<>>
  /\ \/ driver = "duckdb" /\ UNCHANGED <<tx, own>>
     \/ driver = "duckdb" /\ tx[s] # "none" /\ Head(script[s]) = "commit"
          /\ ToTx(s, "none") /\ Discard(s)
     \/ tx[s] # "none" /\ tx[s] # "lost" /\ ToTx(s, "aborted") /\ Discard(s)
     \/ driver = "postgres" /\ tx[s] = "none" /\ Discard(s) /\ UNCHANGED tx
     \/ calls[s] \in LoseAt /\ driver = "postgres" /\ ToTx(s, "lost") /\ Discard(s)
  /\ script' = [script EXCEPT ![s] = <<>>]
  /\ ok' = [ok EXCEPT ![s] = FALSE]
  /\ UNCHANGED <<driver, catalog, cache, warming, context, pc, change, calls, fill>>

\* The end of a script outside a transaction commits what PostgreSQL held
\* back; that too may fail.
EndScript(s) ==
  /\ pc[s] = "running" /\ script[s] = <<>>
  /\ IF driver = "postgres" /\ tx[s] = "none"
     THEN catalog' \in {catalog, Merge(s)} /\ Discard(s)
     ELSE UNCHANGED <<catalog, own>>
  /\ Goto(s, "ended")
  /\ UNCHANGED <<driver, tx, cache, warming, context, query, fill>>

\* Mutation: after an error no transaction is left open.
FinalOnlyIfOk(s) ==
  IF driver = "postgres" THEN tx[s] # "none"
  ELSE ok[s] /\ ~change[s].ends /\ (open[s] \/ change[s].begins)

\* Context.after guesses from the text, the PostgreSQL driver asks the server.
Final(s) ==
  IF driver = "postgres" THEN tx[s] # "none"
  ELSE ~(ok[s] /\ change[s].ends) /\ (open[s] \/ change[s].begins)

After(s) ==
  /\ pc[s] = "ended"
  /\ Settle(s, Final(s))
  /\ calls' = [calls EXCEPT ![s] = @ - 1]
  /\ IF calls[s] = 1
     THEN /\ Goto(s, "idle")
          /\ change' = [change EXCEPT ![s] = NoChange]
          /\ ok' = [ok EXCEPT ![s] = TRUE]
     ELSE UNCHANGED <<pc, change, ok>>
  /\ UNCHANGED <<database, warming, script, fill>>

-----------------------------------------------------------------------------
(* adapter.zig: a relation's type and its columns, through the cache.  A   *)
(* session inside a transaction asks the database and stores nothing.      *)

\* lookup returns the generation with the miss.
MissKind(s) ==
  /\ pc[s] = "idle" /\ Usable(s)
  /\ \E r \in Relations :
       ~Found(<<"kind", r>>) /\ key' = [key EXCEPT ![s] = <<"kind", r>>]
  /\ asked' = [asked EXCEPT ![s] = generation]
  /\ Goto(s, "asking")
  /\ UNCHANGED <<database, cache, warming, context, query, seen>>

\* getColumns does not: the generation is read after it.
MissColumns(s) ==
  /\ pc[s] = "idle" /\ Usable(s)
  /\ \E r \in Relations :
       ~Found(<<"columns", r>>) /\ key' = [key EXCEPT ![s] = <<"columns", r>>]
  /\ Goto(s, "missed")
  /\ UNCHANGED <<database, cache, warming, context, query, asked, seen>>

TakeEpoch(s) ==
  /\ pc[s] = "missed"
  /\ asked' = [asked EXCEPT ![s] = generation]
  /\ Goto(s, "asking")
  /\ UNCHANGED <<database, cache, warming, context, query, key, seen>>

Ask(s) ==
  /\ pc[s] = "asking"
  /\ seen' = [seen EXCEPT ![s] = catalog] /\ Goto(s, "answered")
  /\ UNCHANGED <<database, cache, warming, context, query, key, asked>>

AskFails(s) ==
  /\ pc[s] = "asking"
  /\ \/ UNCHANGED <<tx, open>>
     \/ calls[s] \in LoseAt /\ driver = "postgres" /\ ToTx(s, "lost") /\ open' = [open EXCEPT ![s] = TRUE]
  /\ Goto(s, "idle") /\ Forget(s)
  /\ UNCHANGED <<driver, catalog, own, cache, warming, writes, query>>

\* Mutation: the generation is read when the answer is stored.
StoreAnyway(s) ==
  /\ pc[s] = "answered"
  /\ cached' = IF activeWrites = 0 THEN [cached EXCEPT ![key[s]] = seen[s][key[s][2]]] ELSE cached
  /\ Goto(s, "idle") /\ Forget(s)
  /\ UNCHANGED <<database, listed, generation, activeWrites, warming, context, query>>

Store(s) ==
  /\ pc[s] = "answered"
  /\ Put(s, key[s], seen[s][key[s][2]])
  /\ Goto(s, "idle") /\ Forget(s)
  /\ UNCHANGED <<database, warming, context, query>>

-----------------------------------------------------------------------------
(* Sessions, and warmSession: under its own mutex a session lists every    *)
(* requested schema, once per scope, or again when it is told to.          *)

OpenSession(s) ==
  /\ pc[s] = "closed" /\ generation < MaxGeneration
  /\ open' = [open EXCEPT ![s] = FALSE]
  /\ writes' = [writes EXCEPT ![s] = FALSE]
  /\ Goto(s, IF Populate THEN "opening" ELSE "idle")
  /\ UNCHANGED <<database, cache, warming, query, fill>>

AlreadyWarm(s) ==
  /\ pc[s] = "opening" /\ warmer = Nobody /\ warmed
  /\ Goto(s, "idle")
  /\ UNCHANGED <<database, cache, warming, context, query, fill>>

Warm(s) ==
  /\ \/ pc[s] = "opening" /\ ~warmed
     \/ pc[s] = "idle" /\ Usable(s) /\ Populate
  /\ warmer = Nobody /\ warmer' = s
  /\ asked' = [asked EXCEPT ![s] = generation]
  /\ todo' = [todo EXCEPT ![s] = Schemas]
  /\ Goto(s, "listing")
  /\ UNCHANGED <<database, cache, warmed, schema, rows, context, query, key, seen>>

\* rows[s] are what the listing of the schema returned.
List(s) ==
  /\ pc[s] = "listing"
  /\ \E S \in todo[s] :
     /\ rows' = [rows EXCEPT ![s] = {r \in S : catalog[r] # Absent}]
     /\ todo' = [todo EXCEPT ![s] = @ \ {S}]
     /\ schema' = [schema EXCEPT ![s] = S]
  /\ seen' = [seen EXCEPT ![s] = catalog]
  /\ Goto(s, "listed")
  /\ UNCHANGED <<database, cache, warmed, warmer, context, query, key, asked>>

ListFails(s) ==
  /\ pc[s] = "listing" /\ todo[s] # {}
  /\ warmer' = Nobody
  /\ todo' = [todo EXCEPT ![s] = {}]
  /\ Goto(s, "closing") /\ Forget(s)
  /\ UNCHANGED <<database, cache, warmed, schema, rows, context, query>>

StoreRow(s) ==
  /\ pc[s] = "listed"
  /\ \E r \in rows[s] :
     /\ Put(s, <<"kind", r>>, seen[s][r])
     /\ rows' = [rows EXCEPT ![s] = @ \ {r}]
  /\ UNCHANGED <<database, warmed, warmer, todo, schema, context, pc, query, fill>>

\* Mutation: a listing that was overtaken is marked complete.
MarkAlways(s, S) == listed' = listed \cup {S}

MarkListed(s, S) == listed' = IF Fresh(s) THEN listed \cup {S} ELSE listed

EndListing(s) ==
  /\ pc[s] = "listed" /\ rows[s] = {}
  /\ MarkListed(s, schema[s])
  /\ schema' = [schema EXCEPT ![s] = {}]
  /\ seen' = [seen EXCEPT ![s] = Nothing]
  /\ Goto(s, "listing")
  /\ UNCHANGED <<database, cached, generation, activeWrites, warmed, warmer, todo, rows,
                 context, query, key, asked>>

EndWarming(s) ==
  /\ pc[s] = "listing" /\ todo[s] = {}
  /\ warmed' = TRUE /\ warmer' = Nobody
  /\ Goto(s, "idle") /\ Forget(s)
  /\ UNCHANGED <<database, cache, todo, schema, rows, context, query>>

\* Mutation: the bracket of an unfinished transaction is forgotten.
CloseSilently(s) ==
  /\ pc[s] = "idle"
  /\ writes' = [writes EXCEPT ![s] = FALSE]
  /\ Goto(s, "closing")
  /\ UNCHANGED <<database, cache, warming, open, query, fill>>

\* deinit closes the context first, then the connection: what was not
\* committed is lost only after the bracket is closed.
CloseContext(s) ==
  /\ pc[s] = "idle"
  /\ IF writes[s] THEN EndWrite ELSE UNCHANGED cache
  /\ writes' = [writes EXCEPT ![s] = FALSE]
  /\ Goto(s, "closing")
  /\ UNCHANGED <<database, warming, open, query, fill>>

Disconnect(s) ==
  /\ pc[s] = "closing"
  /\ ToTx(s, "none") /\ Discard(s)
  /\ Goto(s, "closed")
  /\ UNCHANGED <<driver, catalog, cache, warming, context, query, fill>>

-----------------------------------------------------------------------------
Step(s) ==
  \/ StartQuery(s) \/ StartNested(s) \/ Statement(s) \/ StatementFails(s)
  \/ EndScript(s) \/ After(s)
  \/ MissKind(s) \/ MissColumns(s) \/ TakeEpoch(s)
  \/ Ask(s) \/ AskFails(s) \/ Store(s)
  \/ OpenSession(s) \/ AlreadyWarm(s) \/ Warm(s) \/ List(s) \/ ListFails(s)
  \/ StoreRow(s) \/ EndListing(s) \/ EndWarming(s)
  \/ CloseContext(s) \/ Disconnect(s)

Next == \E s \in Sessions : Step(s)

Spec == Init /\ [][Next]_vars

-----------------------------------------------------------------------------
(* Properties *)

DatabaseTyped ==
  /\ driver \in Drivers
  /\ catalog \in [Relations -> Values]
  /\ tx \in [Sessions -> {"none", "open", "aborted", "lost"}]
  /\ own \in [Sessions -> [Relations -> Values \cup {Unknown}]]

CacheTyped ==
  /\ cached \in [Keys -> Values \cup {Unknown}]
  /\ listed \subseteq Schemas
  /\ generation \in Nat /\ activeWrites \in Nat
  /\ warmed \in BOOLEAN /\ warmer \in Sessions \cup {Nobody}

SessionsTyped ==
  /\ open \in [Sessions -> BOOLEAN] /\ writes \in [Sessions -> BOOLEAN]
  /\ pc \in [Sessions -> {"closed", "opening", "idle", "adapting", "running", "ended",
                          "missed", "asking", "answered", "listing", "listed", "closing"}]
  /\ script \in [Sessions -> Seq(Verbs)]
  /\ change \in [Sessions -> [write : BOOLEAN, begins : BOOLEAN, ends : BOOLEAN]]
  /\ ok \in [Sessions -> BOOLEAN] /\ calls \in [Sessions -> 0..2]

FillsTyped ==
  /\ key \in [Sessions -> Keys]
  /\ asked \in [Sessions -> Nat]
  /\ seen \in [Sessions -> [Relations -> Values \cup {Unknown}]]
  /\ todo \in [Sessions -> SUBSET Schemas]
  /\ schema \in [Sessions -> Schemas \cup {{}}]
  /\ rows \in [Sessions -> SUBSET Relations]

\* Every variable holds a value of its type; endWrite never finds the counter
\* at zero, which it asserts.
TypeOK == DatabaseTyped /\ CacheTyped /\ SessionsTyped /\ FillsTyped

\* Whatever a lookup would answer at this moment is what is committed: no fill
\* that a write overtook, no listing that a commit made incomplete.
Truthful == \A k \in Keys : Found(k) => Answer(k) = catalog[k[2]]

\* A session that consults the cache is outside any transaction and has no
\* writes of its own that the committed catalog does not show.
UsersSeeTheCatalog ==
  \A s \in Sessions :
    (Usable(s) /\ pc[s] \notin {"closed", "adapting", "running", "ended", "closing"})
    => tx[s] = "none" /\ own[s] = Nothing

\* Between a catalog write and its commit or rollback a bracket is open, so no
\* answer is stored or served that either could contradict.
UncommittedIsBracketed ==
  \A s \in Sessions : own[s] # Nothing /\ pc[s] # "closing" => activeWrites > 0

\* Once every session is out of its transactions no bracket is left: the cache
\* works again.
ReleasedWhenQuiet ==
  (\A s \in Sessions : pc[s] = "closed" \/ (pc[s] = "idle" /\ Usable(s)))
  => activeWrites = 0

\* The catalog changes inside a bracket only.
CommitsAreBracketed == [][catalog' # catalog => activeWrites > 0]_vars
=============================================================================
