----------------------- MODULE RelationCache_proofs -----------------------
(***************************************************************************)
(* Proofs about relation_cache.zig for any number of sessions, relations   *)
(* and schemas, and any scripts that are bracketed once.                   *)
(***************************************************************************)
EXTENDS RelationCache, FiniteSetTheorems, TLAPS

-----------------------------------------------------------------------------
(* The inductive invariant. *)

Has(sc, verb) == \E i \in 1..Len(sc) : sc[i] = verb
Querying(s) == pc[s] \in {"running", "ended"}

\* A session holds a bracket for its transaction or for the script it runs.
Held(s) == writes[s] \/ (Querying(s) /\ change[s].write)
Holders == {s \in Sessions : Held(s)}

\* The counter counts the brackets that are held.
Counted == activeWrites = Cardinality(Holders)

\* Scripts are bracketed once, and their Change covers what is left of them.
ScriptCovered(s) ==
  /\ pc[s] # "adapting"
  /\ Querying(s) => calls[s] = 1
  /\ Querying(s) /\ Has(script[s], "write") => change[s].write
  /\ Querying(s) /\ Has(script[s], "begin") => change[s].begins
  /\ pc[s] = "ended" => script[s] = <<>>

\* What DuckDB's context concludes from the text and the success of a script.
GuessRight(s) ==
  driver = "duckdb" /\ Querying(s) =>
    /\ tx[s] # "none" => open[s] \/ change[s].begins
    /\ (ok[s] /\ change[s].ends) =>
         Ends(script[s]) \/ (tx[s] = "none" /\ ~Has(script[s], "begin"))

\* A context that is not open belongs to a session outside transactions.
ContextRight(s) ==
  /\ writes[s] => open[s]
  /\ pc[s] \in {"closed", "opening", "closing"} => ~writes[s]
  /\ pc[s] = "opening" => ~open[s]
  /\ pc[s] \in {"missed", "asking", "answered", "listing", "listed"} => ~open[s]
  /\ ~Querying(s) /\ pc[s] # "closing" /\ (~open[s] \/ pc[s] = "closed") => tx[s] = "none"

\* Uncommitted writes are bracketed, and outside a script they belong to a
\* transaction.
OwnBracketed(s) ==
  own[s] # Nothing =>
    /\ Held(s) \/ pc[s] = "closing"
    /\ tx[s] # "none" \/ (driver = "postgres" /\ pc[s] = "running")

\* What a listing holds is one of the requested schemas.
ListsRequested(s) == pc[s] = "listed" => schema[s] \in Schemas

SessionRight(s) ==
  ScriptCovered(s) /\ GuessRight(s) /\ ContextRight(s) /\ OwnBracketed(s) /\ ListsRequested(s)
SessionsRight == \A s \in Sessions : SessionRight(s)

Books == TypeOK /\ Counted /\ SessionsRight

-----------------------------------------------------------------------------
(* Scripts *)

\* A script's first statement is one of it, and what a script has is its first
\* statement's or the rest's.
LEMMA ScriptShrinks ==
  ASSUME NEW sc \in Seq(Verbs), sc # <<>>
  PROVE  /\ Tail(sc) \in Seq(Verbs) /\ Head(sc) \in Verbs
         /\ Has(sc, Head(sc))
         /\ \A verb : Has(Tail(sc), verb) => Has(sc, verb)
         /\ Ends(sc) => \/ Ends(Tail(sc))
                        \/ Head(sc) \in {"commit", "rollback"} /\ ~Has(Tail(sc), "begin")
<1>1. /\ Len(sc) \in Nat /\ Len(sc) > 0 /\ Head(sc) = sc[1] /\ sc[1] \in Verbs
      /\ Tail(sc) \in Seq(Verbs) /\ Len(Tail(sc)) = Len(sc) - 1
  OBVIOUS
<1>2. \A i \in 1..Len(Tail(sc)) : Tail(sc)[i] = sc[i+1] /\ i+1 \in 1..Len(sc)
  BY <1>1
<1>3. \A verb : Has(Tail(sc), verb) => Has(sc, verb)
  BY <1>2 DEF Has
<1>4. ASSUME Ends(sc), ~Ends(Tail(sc))
      PROVE  Head(sc) \in {"commit", "rollback"} /\ ~Has(Tail(sc), "begin")
  <2>1. PICK i \in 1..Len(sc) : Ending(sc, i) /\ \A k \in i+1..Len(sc) : sc[k] # "begin"
    BY <1>4 DEF Ends
  <2>2. CASE i = 1
    <3>1. \A k \in 1..Len(Tail(sc)) : Tail(sc)[k] # "begin"
      BY <1>1, <1>2, <2>1, <2>2
    <3>. QED  BY <1>1, <2>1, <2>2, <3>1 DEF Ending, Has
  <2>3. CASE i # 1
    <3>1. i - 1 \in 1..Len(Tail(sc)) /\ Tail(sc)[i-1] = sc[i]
      BY <1>1, <1>2, <2>3
    <3>2. \A k \in (i-1)+1..Len(Tail(sc)) : Tail(sc)[k] # "begin"
      BY <1>1, <1>2, <2>1, <2>3
    <3>3. Ends(Tail(sc))
      BY <2>1, <3>1, <3>2 DEF Ends, Ending
    <3>. QED  BY <1>4, <3>3
  <2>. QED  BY <2>2, <2>3
<1>. QED  BY <1>1, <1>3, <1>4 DEF Has

\* An empty script has no statements.
LEMMA EmptyScript == \A verb : ~Has(<<>>, verb)
BY DEF Has

\* Classify says what a script contains.
LEMMA ClassifyCovers ==
  ASSUME NEW sc \in Seq(Verbs)
  PROVE  /\ Classify(sc) \in [write : BOOLEAN, begins : BOOLEAN, ends : BOOLEAN]
         /\ Classify(sc).write <=> Has(sc, "write")
         /\ Classify(sc).begins <=> Has(sc, "begin")
         /\ Classify(sc).ends <=> Ends(sc)
BY DEF Classify, Has, Ends

-----------------------------------------------------------------------------
(* Counting brackets *)

\* A bracket that is held is counted.
LEMMA HeldIsCounted ==
  ASSUME TypeOK, Counted, NEW s \in Sessions, Held(s)
  PROVE  activeWrites > 0 /\ activeWrites - 1 \in Nat
<1>1. IsFiniteSet(Holders) /\ s \in Holders
  BY CacheAssumption, FS_Subset DEF Holders
<1>2. Cardinality(Holders) # 0 /\ Cardinality(Holders) \in Nat
  BY <1>1, FS_EmptySet, FS_CardinalityType
<1>. QED  BY <1>2 DEF Counted

\* A bracket that opens is one more, one that closes is one less.
LEMMA HolderChanges ==
  ASSUME TypeOK, Counted, NEW s \in Sessions,
         \A u \in Sessions \ {s} : Held(u)' <=> Held(u)
  PROVE  /\ (Held(s)' <=> Held(s)) /\ activeWrites' = activeWrites => Counted'
         /\ Held(s)' /\ ~Held(s) /\ activeWrites' = activeWrites + 1 => Counted'
         /\ ~Held(s)' /\ Held(s) /\ activeWrites' = activeWrites - 1 => Counted'
<1>1. IsFiniteSet(Holders)
  BY CacheAssumption, FS_Subset DEF Holders
<1>2. (Held(s)' <=> Held(s)) => Holders' = Holders
  BY DEF Holders
<1>3. Held(s)' /\ ~Held(s) => Holders' = Holders \cup {s} /\ s \notin Holders
  BY DEF Holders
<1>4. ~Held(s)' /\ Held(s) => Holders' = Holders \ {s} /\ s \in Holders
  BY DEF Holders
<1>5. s \notin Holders => Cardinality(Holders \cup {s}) = Cardinality(Holders) + 1
  BY <1>1, FS_AddElement
<1>6. s \in Holders => Cardinality(Holders \ {s}) = Cardinality(Holders) - 1
  BY <1>1, FS_RemoveElement
<1>. QED  BY <1>2, <1>3, <1>4, <1>5, <1>6 DEF Counted
-----------------------------------------------------------------------------
(* Types *)

\* The parts of the cache's type that its critical sections touch.
EntriesTyped ==
  /\ cached \in [Keys -> Values \cup {Unknown}]
  /\ listed \subseteq Schemas
  /\ generation \in Nat /\ activeWrites \in Nat

\* The critical sections keep the types, an end of a bracket that is held too.
LEMMA SectionsTyped ==
  ASSUME TypeOK, Counted, NEW s \in Sessions
  PROVE  /\ UNCHANGED cache => EntriesTyped'
         /\ BeginWrite => EntriesTyped'
         /\ EndWrite /\ Held(s) => EntriesTyped'
         /\ \A k \in Keys, v \in Values \cup {Unknown} : Put(s, k, v) => EntriesTyped'
<1>. USE DEF TypeOK, CacheTyped, EntriesTyped, cache
<1>1. EndWrite /\ Held(s) => EntriesTyped'
  BY HeldIsCounted DEF EndWrite, Invalidate
<1>2. BeginWrite => EntriesTyped'
  BY DEF BeginWrite, Invalidate
<1>3. \A k \in Keys, v \in Values \cup {Unknown} : Put(s, k, v) => EntriesTyped'
  BY DEF Put
<1>. QED  BY <1>1, <1>2, <1>3

\* Scripts keep the types.
LEMMA ScriptsTyped ==
  ASSUME Books, Adapted = {}, NEW s \in Sessions,
         StartQuery(s) \/ Statement(s) \/ StatementFails(s) \/ EndScript(s) \/ After(s)
  PROVE  TypeOK'
<1>. USE DEF Books, TypeOK, DatabaseTyped, CacheTyped, SessionsTyped, FillsTyped,
             EntriesTyped, database, cache, warming, context, query, fill, Goto
<1>1. CASE StartQuery(s)
  <2>1. PICK sc \in Scripts :
          /\ script' = [script EXCEPT ![s] = sc]
          /\ change' = [change EXCEPT ![s] = Classify(sc)]
          /\ Before(s, Classify(sc))
    BY <1>1 DEF StartQuery
  <2>2. sc \in Seq(Verbs)
    BY CacheAssumption
  <2>3. EntriesTyped'
    BY <2>1, SectionsTyped DEF Before
  <2>4. DatabaseTyped' /\ FillsTyped' /\ warmed' = warmed /\ warmer' = warmer
    BY <1>1 DEF StartQuery
  <2>5. /\ script' \in [Sessions -> Seq(Verbs)]
        /\ change' \in [Sessions -> [write : BOOLEAN, begins : BOOLEAN, ends : BOOLEAN]]
    BY <2>1, <2>2, ClassifyCovers
  <2>6. /\ pc' = [pc EXCEPT ![s] = "running"]
        /\ ok' = [ok EXCEPT ![s] = TRUE] /\ calls' = [calls EXCEPT ![s] = 1]
        /\ UNCHANGED <<open, writes>>
    BY <1>1 DEF StartQuery
  <2>7. /\ pc' \in [Sessions -> {"closed", "opening", "idle", "adapting", "running", "ended",
                                "missed", "asking", "answered", "listing", "listed", "closing"}]
        /\ ok' \in [Sessions -> BOOLEAN] /\ calls' \in [Sessions -> 0..2]
    BY <2>6
  <2>. QED  BY <2>3, <2>4, <2>5, <2>6, <2>7
<1>2. CASE Statement(s)
  <2>1. SessionsTyped' /\ CacheTyped' /\ FillsTyped'
    BY <1>2, ScriptShrinks DEF Statement
  <2>2. Merge(s) \in [Relations -> Values]
    BY DEF Merge
  <2>3. Nothing \in [Relations -> Values \cup {Unknown}]
    BY DEF Nothing
  <2>4. CASE DoRead(s)
    BY <1>2, <2>1, <2>4 DEF Statement, DoRead
  <2>5. CASE DoWrite(s)
    <3>1. PICK r \in Relations, v \in Values :
            IF driver = "duckdb" /\ tx[s] = "none"
            THEN catalog' = [catalog EXCEPT ![r] = v] /\ UNCHANGED own
            ELSE own' = [own EXCEPT ![s][r] = v] /\ UNCHANGED catalog
      BY <2>5 DEF DoWrite
    <3>2. catalog' \in [Relations -> Values]
      BY <3>1
    <3>3. [own[s] EXCEPT ![r] = v] \in [Relations -> Values \cup {Unknown}]
      OBVIOUS
    <3>4. own' \in [Sessions -> [Relations -> Values \cup {Unknown}]]
      BY <3>1, <3>3
    <3>. QED  BY <1>2, <2>1, <2>5, <3>2, <3>4 DEF Statement, DoWrite
  <2>6. CASE DoBegin(s)
    BY <1>2, <2>1, <2>6 DEF Statement, DoBegin, ToTx
  <2>7. CASE DoCommit(s)
    BY <1>2, <2>1, <2>2, <2>3, <2>7 DEF Statement, DoCommit, ToTx, Discard
  <2>8. CASE DoRollback(s)
    BY <1>2, <2>1, <2>3, <2>8 DEF Statement, DoRollback, ToTx, Discard
  <2>9. Head(script[s]) \in Verbs
    BY <1>2, ScriptShrinks DEF Statement
  <2>. QED  BY <1>2, <2>4, <2>5, <2>6, <2>7, <2>8, <2>9 DEF Statement, Verbs
<1>3. CASE StatementFails(s)
  <2>1. Nothing \in [Relations -> Values \cup {Unknown}] /\ <<>> \in Seq(Verbs)
    BY DEF Nothing
  <2>2. tx' \in [Sessions -> {"none", "open", "aborted", "lost"}]
    BY <1>3 DEF StatementFails, ToTx
  <2>3. own' \in [Sessions -> [Relations -> Values \cup {Unknown}]]
    BY <1>3, <2>1 DEF StatementFails, Discard
  <2>4. SessionsTyped'
    BY <1>3, <2>1 DEF StatementFails
  <2>5. CacheTyped' /\ FillsTyped' /\ driver' = driver /\ catalog' = catalog
    BY <1>3 DEF StatementFails
  <2>. QED  BY <2>2, <2>3, <2>4, <2>5
<1>4. CASE EndScript(s)
  <2>1. Nothing \in [Relations -> Values \cup {Unknown}] /\ Merge(s) \in [Relations -> Values]
    BY DEF Nothing, Merge
  <2>2. catalog' \in [Relations -> Values] /\ driver' \in Drivers
    BY <1>4, <2>1 DEF EndScript
  <2>3. own' \in [Sessions -> [Relations -> Values \cup {Unknown}]]
    BY <1>4, <2>1 DEF EndScript, Discard
  <2>4. SessionsTyped' /\ CacheTyped' /\ FillsTyped' /\ tx' = tx
    BY <1>4 DEF EndScript
  <2>. QED  BY <2>2, <2>3, <2>4
<1>5. CASE After(s)
  <2>1. calls[s] = 1 /\ Querying(s)
    BY <1>5 DEF After, SessionsRight, SessionRight, ScriptCovered, Querying
  <2>2. EntriesTyped'
    BY <1>5, <2>1, SectionsTyped DEF After, Settle, Held
  <2>3. Final(s) \in BOOLEAN
    BY DEF Final
  <2>4. open' \in [Sessions -> BOOLEAN] /\ writes' \in [Sessions -> BOOLEAN]
    BY <1>5, <2>3 DEF After, Settle
  <2>5. calls' \in [Sessions -> 0..2]
    BY <1>5, <2>1 DEF After
  <2>6. NoChange \in [write : BOOLEAN, begins : BOOLEAN, ends : BOOLEAN]
    BY DEF NoChange
  <2>7. /\ pc' = [pc EXCEPT ![s] = "idle"]
        /\ change' = [change EXCEPT ![s] = NoChange]
        /\ ok' = [ok EXCEPT ![s] = TRUE]
        /\ script' = script
    BY <1>5, <2>1 DEF After
  <2>8. SessionsTyped'
    BY <2>4, <2>5, <2>6, <2>7
  <2>. QED  BY <1>5, <2>2, <2>8 DEF After
<1>. QED  BY <1>1, <1>2, <1>3, <1>4, <1>5

\* What a session does between its scripts.
Fills(s) ==
  \/ MissKind(s) \/ MissColumns(s) \/ TakeEpoch(s) \/ Ask(s) \/ AskFails(s) \/ Store(s)
Warms(s) ==
  \/ AlreadyWarm(s) \/ Warm(s) \/ List(s) \/ ListFails(s)
  \/ StoreRow(s) \/ EndListing(s) \/ EndWarming(s)
OpensOrCloses(s) == OpenSession(s) \/ CloseContext(s) \/ Disconnect(s)

\* The default key is one.
LEMMA DefaultsTyped ==
  AnyKey \in Keys /\ Nothing \in [Relations -> Values \cup {Unknown}]
<1>1. \E k \in Keys : TRUE
  <2>1. PICK r \in Relations : TRUE
    BY CacheAssumption
  <2>2. <<"kind", r>> \in Keys
    BY DEF Keys
  <2>. QED  BY <2>2
<1>. QED  BY <1>1 DEF AnyKey, Nothing

\* Fills keep the types.
LEMMA FillsKeepTypes ==
  ASSUME Books, NEW s \in Sessions, Fills(s)
  PROVE  TypeOK'
<1>. USE DefaultsTyped
     DEF Books, TypeOK, DatabaseTyped, CacheTyped, SessionsTyped, FillsTyped, EntriesTyped,
         database, cache, warming, context, query, fill, Goto, Forget
<1>1. CASE MissKind(s)
  BY <1>1 DEF MissKind, Keys
<1>2. CASE MissColumns(s)
  BY <1>2 DEF MissColumns, Keys
<1>3. CASE TakeEpoch(s)
  BY <1>3 DEF TakeEpoch
<1>4. CASE Ask(s)
  BY <1>4 DEF Ask
<1>5. CASE AskFails(s)
  BY <1>5 DEF AskFails, ToTx
<1>6. CASE Store(s)
  <2>1. key[s] \in Keys /\ seen[s][key[s][2]] \in Values \cup {Unknown}
    BY DEF Keys
  <2>2. EntriesTyped'
    BY <1>6, <2>1, SectionsTyped DEF Store
  <2>. QED  BY <1>6, <2>2 DEF Store
<1>. QED  BY <1>1, <1>2, <1>3, <1>4, <1>5, <1>6 DEF Fills

\* Warming keeps the types.
LEMMA WarmsKeepTypes ==
  ASSUME Books, NEW s \in Sessions, Warms(s)
  PROVE  TypeOK'
<1>. USE DefaultsTyped
     DEF Books, TypeOK, DatabaseTyped, CacheTyped, SessionsTyped, FillsTyped, EntriesTyped,
         database, cache, warming, context, query, fill, Goto, Forget
<1>1. CASE AlreadyWarm(s)
  BY <1>1 DEF AlreadyWarm
<1>2. CASE Warm(s)
  BY <1>2 DEF Warm
<1>3. CASE List(s)
  <2>1. PICK S \in todo[s] :
          /\ rows' = [rows EXCEPT ![s] = {r \in S : catalog[r] # Absent}]
          /\ todo' = [todo EXCEPT ![s] = @ \ {S}]
          /\ schema' = [schema EXCEPT ![s] = S]
    BY <1>3 DEF List
  <2>2. S \in Schemas /\ S \subseteq Relations
    BY CacheAssumption
  <2>3. /\ rows' \in [Sessions -> SUBSET Relations]
        /\ todo' \in [Sessions -> SUBSET Schemas]
        /\ schema' \in [Sessions -> Schemas \cup {{}}]
    BY <2>1, <2>2
  <2>. QED  BY <1>3, <2>3 DEF List
<1>4. CASE ListFails(s)
  BY <1>4 DEF ListFails
<1>5. CASE StoreRow(s)
  <2>1. PICK r \in rows[s] : Put(s, <<"kind", r>>, seen[s][r]) /\ rows' = [rows EXCEPT ![s] = @ \ {r}]
    BY <1>5 DEF StoreRow
  <2>2. <<"kind", r>> \in Keys /\ seen[s][r] \in Values \cup {Unknown}
    BY DEF Keys
  <2>3. EntriesTyped'
    BY <2>1, <2>2, SectionsTyped
  <2>4. rows' \in [Sessions -> SUBSET Relations]
    BY <2>1
  <2>. QED  BY <1>5, <2>3, <2>4 DEF StoreRow
<1>6. CASE EndListing(s)
  <2>1. listed' \subseteq Schemas
    BY <1>6 DEF EndListing, MarkListed, SessionsRight, SessionRight, ListsRequested
  <2>. QED  BY <1>6, <2>1 DEF EndListing
<1>7. CASE EndWarming(s)
  BY <1>7 DEF EndWarming
<1>. QED  BY <1>1, <1>2, <1>3, <1>4, <1>5, <1>6, <1>7 DEF Warms

\* Opening and closing sessions keeps the types.
LEMMA OpeningKeepsTypes ==
  ASSUME Books, NEW s \in Sessions, OpensOrCloses(s)
  PROVE  TypeOK'
<1>. USE DefaultsTyped
     DEF Books, TypeOK, DatabaseTyped, CacheTyped, SessionsTyped, FillsTyped, EntriesTyped,
         database, cache, warming, context, query, fill, Goto
<1>1. CASE OpenSession(s)
  BY <1>1 DEF OpenSession
<1>2. CASE CloseContext(s)
  <2>1. EntriesTyped'
    BY <1>2, SectionsTyped DEF CloseContext, Held
  <2>. QED  BY <1>2, <2>1 DEF CloseContext
<1>3. CASE Disconnect(s)
  BY <1>3 DEF Disconnect, ToTx, Discard
<1>. QED  BY <1>1, <1>2, <1>3 DEF OpensOrCloses

\* Every step keeps the types.
LEMMA StepKeepsTypes ==
  ASSUME Books, Adapted = {}, NEW s \in Sessions, Step(s)
  PROVE  TypeOK'
<1>1. ~StartNested(s)
  BY DEF Books, SessionsRight, SessionRight, ScriptCovered, StartNested
<1>. QED  BY <1>1, ScriptsTyped, FillsKeepTypes, WarmsKeepTypes, OpeningKeepsTypes
          DEF Step, Fills, Warms, OpensOrCloses

-----------------------------------------------------------------------------
(* A session's books are its own: no step of another session changes them. *)

\* What SessionRight and Held read of a session.
Untouched(u) ==
  /\ driver' = driver
  /\ tx'[u] = tx[u] /\ own'[u] = own[u] /\ open'[u] = open[u] /\ writes'[u] = writes[u]
  /\ pc'[u] = pc[u] /\ script'[u] = script[u] /\ change'[u] = change[u]
  /\ ok'[u] = ok[u] /\ calls'[u] = calls[u] /\ schema'[u] = schema[u]

\* A session's step leaves the others' books alone.
LEMMA OthersUntouched ==
  ASSUME TypeOK, NEW s \in Sessions, Step(s), NEW u \in Sessions \ {s}
  PROVE  Untouched(u)
<1>. USE DEF TypeOK, DatabaseTyped, SessionsTyped, FillsTyped, Untouched,
             database, cache, warming, context, query, fill, Goto
<1>1. CASE StartQuery(s)
  BY <1>1 DEF StartQuery
<1>2. CASE StartNested(s)
  BY <1>2 DEF StartNested
<1>3. CASE Statement(s)
  <2>1. script' = [script EXCEPT ![s] = Tail(script[s])] /\ script[s] # <<>>
    BY <1>3 DEF Statement
  <2>2. Head(script[s]) \in Verbs
    BY <2>1, ScriptShrinks
  <2>3. tx'[u] = tx[u]
    BY <1>3, <2>2 DEF Statement, DoRead, DoWrite, DoBegin, DoCommit, DoRollback, ToTx, Verbs
  <2>4. own'[u] = own[u]
    BY <1>3, <2>2
       DEF Statement, DoRead, DoWrite, DoBegin, DoCommit, DoRollback, Discard, Verbs
  <2>. QED  BY <1>3, <2>1, <2>3, <2>4 DEF Statement
<1>4. CASE StatementFails(s)
  BY <1>4 DEF StatementFails, ToTx, Discard
<1>5. CASE EndScript(s)
  BY <1>5 DEF EndScript, Discard
<1>6. CASE After(s)
  <2>1. open'[u] = open[u] /\ writes'[u] = writes[u]
    BY <1>6 DEF After, Settle
  <2>. QED  BY <1>6, <2>1 DEF After
<1>7. CASE Fills(s)
  BY <1>7 DEF Fills, MissKind, MissColumns, TakeEpoch, Ask, AskFails, Store, ToTx
<1>8. CASE Warms(s)
  BY <1>8 DEF Warms, AlreadyWarm, Warm, List, ListFails, StoreRow, EndListing, EndWarming
<1>9. CASE OpensOrCloses(s)
  BY <1>9 DEF OpensOrCloses, OpenSession, CloseContext, Disconnect, ToTx, Discard
<1>. QED  BY <1>1, <1>2, <1>3, <1>4, <1>5, <1>6, <1>7, <1>8, <1>9
          DEF Step, Fills, Warms, OpensOrCloses

\* Untouched books stay right, and hold what they held.
LEMMA UntouchedStaysRight ==
  ASSUME NEW u \in Sessions, SessionRight(u), Untouched(u)
  PROVE  SessionRight(u)' /\ (Held(u)' <=> Held(u))
BY DEF Untouched, SessionRight, ScriptCovered, GuessRight, ContextRight, OwnBracketed,
       ListsRequested, Held, Querying

-----------------------------------------------------------------------------
(* What each step does to its own session's books. *)

\* A script starts with the brackets of its transaction and one for itself.
LEMMA StartQueryBooks ==
  ASSUME Books, Adapted = {}, NEW s \in Sessions, StartQuery(s)
  PROVE  /\ SessionRight(s)'
         /\ \/ (Held(s)' <=> Held(s)) /\ activeWrites' = activeWrites
            \/ Held(s)' /\ ~Held(s) /\ activeWrites' = activeWrites + 1
<1>. USE DEF Books, TypeOK, DatabaseTyped, CacheTyped, SessionsTyped
<1>1. PICK sc \in Scripts :
        /\ script' = [script EXCEPT ![s] = sc]
        /\ change' = [change EXCEPT ![s] = Classify(sc)]
        /\ Before(s, Classify(sc))
  BY DEF StartQuery
<1>2. sc \in Seq(Verbs)
  BY CacheAssumption
<1>3. /\ pc[s] = "idle" /\ pc'[s] = "running" /\ ok'[s] = TRUE /\ calls'[s] = 1
      /\ script'[s] = sc /\ change'[s] = Classify(sc)
      /\ driver' = driver /\ tx' = tx /\ own' = own /\ open' = open /\ writes' = writes
  BY <1>1 DEF StartQuery, Goto, database, context
<1>4. SessionRight(s)
  BY DEF SessionsRight
<1>5. ScriptCovered(s)'
  BY <1>2, <1>3, ClassifyCovers DEF ScriptCovered, Querying
<1>6. GuessRight(s)'
  <2>1. tx[s] # "none" => open[s]
    BY <1>3, <1>4 DEF SessionRight, ContextRight, Querying
  <2>. QED  BY <1>2, <1>3, <2>1, ClassifyCovers DEF GuessRight
<1>7. ContextRight(s)'
  BY <1>3, <1>4 DEF SessionRight, ContextRight, Querying
<1>8. OwnBracketed(s)'
  BY <1>3, <1>4 DEF SessionRight, OwnBracketed, Held, Querying
<1>9. ListsRequested(s)'
  BY <1>3 DEF ListsRequested
<1>10. Held(s) <=> writes[s]
  BY <1>3 DEF Held, Querying
<1>11. Held(s)' <=> writes[s] \/ Classify(sc).write
  BY <1>3 DEF Held, Querying
<1>. QED  BY <1>1, <1>5, <1>6, <1>7, <1>8, <1>9, <1>10, <1>11
          DEF SessionRight, Before, BeginWrite, cache

\* A statement keeps the script covered and the guess right.
LEMMA StatementBooks ==
  ASSUME Books, NEW s \in Sessions, Statement(s)
  PROVE  SessionRight(s)' /\ (Held(s)' <=> Held(s)) /\ activeWrites' = activeWrites
<1>. USE DEF Books, TypeOK, DatabaseTyped, CacheTyped, SessionsTyped
<1>1. /\ pc[s] = "running" /\ script[s] # <<>> /\ script'[s] = Tail(script[s])
      /\ script[s] \in Seq(Verbs) /\ script' = [script EXCEPT ![s] = Tail(script[s])]
      /\ driver' = driver /\ open' = open /\ writes' = writes /\ pc' = pc
      /\ change' = change /\ ok' = ok /\ calls' = calls /\ schema' = schema
      /\ activeWrites' = activeWrites
  BY DEF Statement, cache, context, warming
<1>2. SessionRight(s)
  BY DEF SessionsRight
<1>3. /\ Has(script[s], Head(script[s])) /\ Head(script[s]) \in Verbs
      /\ \A verb : Has(script'[s], verb) => Has(script[s], verb)
      /\ Ends(script[s]) => \/ Ends(script'[s])
                            \/ /\ Head(script[s]) \in {"commit", "rollback"}
                               /\ ~Has(script'[s], "begin")
  BY <1>1, ScriptShrinks
<1>4. ScriptCovered(s)' /\ ListsRequested(s)' /\ (Held(s)' <=> Held(s))
  BY <1>1, <1>2, <1>3 DEF SessionRight, ScriptCovered, ListsRequested, Held, Querying
<1>5. ContextRight(s)'
  BY <1>1, <1>2 DEF SessionRight, ContextRight, Querying
<1>6. CASE Head(script[s]) = "read"
  <2>1. DoRead(s)
    BY <1>6 DEF Statement
  <2>2. GuessRight(s)' /\ OwnBracketed(s)'
    BY <1>1, <1>2, <1>3, <1>4, <1>6, <2>1
       DEF SessionRight, GuessRight, OwnBracketed, Querying, DoRead
  <2>. QED  BY <1>1, <1>4, <1>5, <2>2 DEF SessionRight
<1>7. CASE Head(script[s]) = "write"
  <2>1. DoWrite(s)
    BY <1>7 DEF Statement
  <2>2. tx' = tx /\ (driver = "duckdb" /\ tx[s] = "none" => own' = own)
    BY <2>1 DEF DoWrite
  <2>3. GuessRight(s)'
    BY <1>1, <1>2, <1>3, <1>7, <2>2 DEF SessionRight, GuessRight, Querying
  <2>4. Held(s)' /\ driver \in {"duckdb", "postgres"}
    BY <1>1, <1>2, <1>3, <1>4, <1>7, CacheAssumption
       DEF SessionRight, ScriptCovered, Held, Querying
  <2>5. OwnBracketed(s)'
    BY <1>1, <1>2, <2>2, <2>4 DEF SessionRight, OwnBracketed
  <2>. QED  BY <1>1, <1>4, <1>5, <2>3, <2>5 DEF SessionRight
<1>8. CASE Head(script[s]) = "begin"
  <2>1. DoBegin(s)
    BY <1>8 DEF Statement
  <2>2. tx'[s] = "open" /\ own' = own
    BY <2>1 DEF DoBegin, ToTx
  <2>3. change[s].begins
    BY <1>1, <1>2, <1>3, <1>8 DEF SessionRight, ScriptCovered, Querying
  <2>4. GuessRight(s)'
    BY <1>1, <1>2, <1>3, <1>8, <2>2, <2>3 DEF SessionRight, GuessRight, Querying
  <2>5. OwnBracketed(s)'
    BY <1>1, <1>2, <1>4, <2>2 DEF SessionRight, OwnBracketed
  <2>. QED  BY <1>1, <1>4, <1>5, <2>4, <2>5 DEF SessionRight
<1>9. CASE Head(script[s]) \in {"commit", "rollback"}
  <2>1. DoCommit(s) \/ DoRollback(s)
    BY <1>9 DEF Statement
  <2>2. tx'[s] = "none" /\ own'[s] = Nothing
    BY <2>1 DEF DoCommit, DoRollback, ToTx, Discard
  <2>3. driver = "duckdb" => tx[s] # "none"
    BY <2>1 DEF DoCommit, DoRollback
  <2>4. GuessRight(s)'
    BY <1>1, <1>2, <1>3, <2>2, <2>3 DEF SessionRight, GuessRight, Querying
  <2>5. OwnBracketed(s)'
    BY <2>2 DEF OwnBracketed, Nothing
  <2>. QED  BY <1>1, <1>4, <1>5, <2>4, <2>5 DEF SessionRight
<1>. QED  BY <1>3, <1>6, <1>7, <1>8, <1>9 DEF Verbs

\* An error leaves nothing of the script and no transaction the context
\* does not expect.
LEMMA StatementFailsBooks ==
  ASSUME Books, NEW s \in Sessions, StatementFails(s)
  PROVE  SessionRight(s)' /\ (Held(s)' <=> Held(s)) /\ activeWrites' = activeWrites
<1>. USE DEF Books, TypeOK, DatabaseTyped, CacheTyped, SessionsTyped
<1>1. /\ pc[s] = "running" /\ script'[s] = <<>> /\ ok'[s] = FALSE
      /\ driver' = driver /\ open' = open /\ writes' = writes /\ pc' = pc
      /\ change' = change /\ calls' = calls /\ schema' = schema
      /\ activeWrites' = activeWrites
  BY DEF StatementFails, cache, context, warming
<1>2. SessionRight(s)
  BY DEF SessionsRight
<1>3. ScriptCovered(s)' /\ ListsRequested(s)' /\ (Held(s)' <=> Held(s))
  BY <1>1, <1>2, EmptyScript
     DEF SessionRight, ScriptCovered, ListsRequested, Held, Querying
<1>4. ContextRight(s)'
  BY <1>1, <1>2 DEF SessionRight, ContextRight, Querying
<1>5. driver = "duckdb" /\ tx'[s] # "none" => tx[s] # "none"
  BY DEF StatementFails, ToTx
<1>6. GuessRight(s)'
  BY <1>1, <1>2, <1>5 DEF SessionRight, GuessRight, Querying
<1>7. own'[s] = Nothing \/ (own'[s] = own[s] /\ tx'[s] = tx[s])
  BY DEF StatementFails, ToTx, Discard
<1>8. OwnBracketed(s)'
  BY <1>1, <1>2, <1>3, <1>7 DEF SessionRight, OwnBracketed, Nothing
<1>. QED  BY <1>1, <1>3, <1>4, <1>6, <1>8 DEF SessionRight

\* What PostgreSQL held back is settled with the script.
LEMMA EndScriptBooks ==
  ASSUME Books, NEW s \in Sessions, EndScript(s)
  PROVE  SessionRight(s)' /\ (Held(s)' <=> Held(s)) /\ activeWrites' = activeWrites
<1>. USE DEF Books, TypeOK, DatabaseTyped, CacheTyped, SessionsTyped
<1>1. /\ pc[s] = "running" /\ pc'[s] = "ended" /\ script[s] = <<>>
      /\ driver' = driver /\ tx' = tx /\ open' = open /\ writes' = writes
      /\ script' = script /\ change' = change /\ ok' = ok /\ calls' = calls
      /\ activeWrites' = activeWrites
  BY DEF EndScript, Goto, cache, context, query
<1>2. SessionRight(s)
  BY DEF SessionsRight
<1>3. /\ ScriptCovered(s)' /\ ListsRequested(s)' /\ (Held(s)' <=> Held(s))
      /\ ContextRight(s)' /\ GuessRight(s)'
  BY <1>1, <1>2, EmptyScript
     DEF SessionRight, ScriptCovered, ListsRequested, Held, ContextRight, GuessRight, Querying
<1>4. own'[s] = Nothing \/ (own' = own /\ (driver # "postgres" \/ tx[s] # "none"))
  BY DEF EndScript, Discard
<1>5. OwnBracketed(s)'
  BY <1>1, <1>2, <1>3, <1>4 DEF SessionRight, OwnBracketed, Nothing
<1>. QED  BY <1>1, <1>3, <1>5 DEF SessionRight

\* After a script the context knows whether a transaction is left, and its
\* bracket is the transaction's or closed.
LEMMA AfterBooks ==
  ASSUME Books, NEW s \in Sessions, After(s)
  PROVE  /\ SessionRight(s)'
         /\ \/ (Held(s)' <=> Held(s)) /\ activeWrites' = activeWrites
            \/ ~Held(s)' /\ Held(s) /\ activeWrites' = activeWrites - 1
<1>. USE DEF Books, TypeOK, DatabaseTyped, CacheTyped, SessionsTyped
<1>1. SessionRight(s) /\ calls[s] = 1 /\ Querying(s) /\ pc[s] = "ended" /\ script[s] = <<>>
  BY DEF After, SessionsRight, SessionRight, ScriptCovered, Querying
<1>2. /\ driver' = driver /\ tx' = tx /\ own' = own /\ script' = script
      /\ pc'[s] = "idle"
      /\ open'[s] = Final(s) /\ writes'[s] = (Final(s) /\ Held(s))
  BY <1>1 DEF After, Settle, Goto, database, Held
<1>3. tx[s] # "none" => Final(s)
  BY <1>1, EmptyScript, CacheAssumption DEF SessionRight, GuessRight, Final, Ends
<1>4. ~Querying(s)' /\ (Held(s)' <=> writes'[s])
  BY <1>2 DEF Querying, Held
<1>5. ScriptCovered(s)' /\ GuessRight(s)' /\ ListsRequested(s)'
  BY <1>2, <1>4 DEF ScriptCovered, GuessRight, ListsRequested
<1>6. ContextRight(s)'
  BY <1>2, <1>3, <1>4 DEF ContextRight
<1>7. OwnBracketed(s)'
  BY <1>1, <1>2, <1>3, <1>4 DEF SessionRight, OwnBracketed
<1>8. IF ~Final(s) /\ Held(s) THEN activeWrites' = activeWrites - 1
      ELSE activeWrites' = activeWrites
  BY <1>1 DEF After, Settle, EndWrite, cache, Held
<1>. QED  BY <1>2, <1>4, <1>5, <1>6, <1>7, <1>8 DEF SessionRight

\* A session that fills or lists is outside transactions and stays there, or
\* loses its connection.
LEMMA FillsBooks ==
  ASSUME Books, NEW s \in Sessions, Fills(s) \/ Warms(s)
  PROVE  SessionRight(s)' /\ (Held(s)' <=> Held(s)) /\ activeWrites' = activeWrites
<1>. USE DEF Books, TypeOK, DatabaseTyped, CacheTyped, SessionsTyped
<1>1. SessionRight(s)
  BY DEF SessionsRight
<1>2. /\ ~open[s] /\ ~writes[s] /\ ~Querying(s) /\ tx[s] = "none" /\ own[s] = Nothing
  <2>1. ~open[s] /\ ~Querying(s) /\ pc[s] \notin {"closed", "closing"}
    BY <1>1 DEF Fills, Warms, MissKind, MissColumns, TakeEpoch, Ask, AskFails, Store,
                AlreadyWarm, Warm, List, ListFails, StoreRow, EndListing, EndWarming,
                Usable, SessionRight, ContextRight, Querying
  <2>2. ~writes[s] /\ tx[s] = "none"
    BY <1>1, <2>1 DEF SessionRight, ContextRight
  <2>. QED  BY <1>1, <2>1, <2>2 DEF SessionRight, OwnBracketed, Held
<1>3. /\ driver' = driver /\ own' = own /\ writes' = writes
      /\ pc'[s] \in {"idle", "missed", "asking", "answered", "listing", "listed", "closing"}
      /\ script' = script /\ change' = change /\ ok' = ok /\ calls' = calls
      /\ activeWrites' = activeWrites
      /\ \/ tx' = tx /\ open' = open
         \/ tx'[s] = "lost" /\ open'[s] /\ pc'[s] = "idle"
  <2>1. CASE Fills(s)
    BY <2>1 DEF Fills, MissKind, MissColumns, TakeEpoch, Ask, AskFails, Store, Put, ToTx,
                Goto, database, cache, warming, context, query
  <2>2. CASE Warms(s)
    BY <2>2 DEF Warms, AlreadyWarm, Warm, List, ListFails, StoreRow, EndListing, EndWarming,
                Put, Goto, database, cache, context, query
  <2>. QED  BY <2>1, <2>2
<1>4. pc'[s] = "listed" => schema'[s] \in Schemas
  <2>1. CASE List(s)
    <3>1. PICK S \in todo[s] : schema' = [schema EXCEPT ![s] = S]
      BY <2>1 DEF List
    <3>. QED  BY <3>1 DEF FillsTyped
  <2>2. CASE StoreRow(s)
    BY <1>1, <2>2 DEF StoreRow, warming, SessionRight, ListsRequested
  <2>3. ~List(s) /\ ~StoreRow(s) => pc'[s] # "listed"
    BY DEF Fills, Warms, MissKind, MissColumns, TakeEpoch, Ask, AskFails, Store,
           AlreadyWarm, Warm, ListFails, EndListing, EndWarming, Goto
  <2>. QED  BY <2>1, <2>2, <2>3
<1>5. ~Querying(s)' /\ ~Held(s)' /\ ~Held(s)
  BY <1>2, <1>3 DEF Querying, Held
<1>6. ScriptCovered(s)' /\ GuessRight(s)' /\ ListsRequested(s)'
  BY <1>3, <1>4, <1>5 DEF ScriptCovered, GuessRight, ListsRequested
<1>7. ContextRight(s)' /\ OwnBracketed(s)'
  BY <1>2, <1>3, <1>5 DEF ContextRight, OwnBracketed, Nothing
<1>. QED  BY <1>3, <1>5, <1>6, <1>7 DEF SessionRight

\* Opening finds nothing, closing leaves nothing: the bracket of an unfinished
\* transaction is closed before the transaction is lost.
LEMMA OpeningBooks ==
  ASSUME Books, NEW s \in Sessions, OpensOrCloses(s)
  PROVE  /\ SessionRight(s)'
         /\ \/ (Held(s)' <=> Held(s)) /\ activeWrites' = activeWrites
            \/ ~Held(s)' /\ Held(s) /\ activeWrites' = activeWrites - 1
<1>. USE DEF Books, TypeOK, DatabaseTyped, CacheTyped, SessionsTyped,
             SessionRight, ScriptCovered, GuessRight, ContextRight, OwnBracketed,
             ListsRequested, Held, Querying, Goto
<1>1. SessionRight(s)
  BY DEF SessionsRight
<1>2. CASE OpenSession(s)
  BY <1>1, <1>2 DEF OpenSession, database, cache, query
<1>3. CASE CloseContext(s)
  BY <1>1, <1>3 DEF CloseContext, EndWrite, database, cache, query
<1>4. CASE Disconnect(s)
  <2>1. /\ tx'[s] = "none" /\ own'[s] = Nothing /\ pc'[s] = "closed" /\ pc[s] = "closing"
        /\ writes' = writes /\ open' = open /\ activeWrites' = activeWrites
    BY <1>4 DEF Disconnect, ToTx, Discard, cache, context
  <2>. QED  BY <1>1, <2>1 DEF Nothing
<1>. QED  BY <1>2, <1>3, <1>4 DEF OpensOrCloses

\* The books stay right.
LEMMA StepKeepsBooks ==
  ASSUME Books, Adapted = {}, NEW s \in Sessions, Step(s)
  PROVE  Books'
<1>1. TypeOK'
  BY StepKeepsTypes
<1>2. ~StartNested(s)
  BY DEF Books, SessionsRight, SessionRight, ScriptCovered, StartNested
<1>3. /\ SessionRight(s)'
      /\ \/ (Held(s)' <=> Held(s)) /\ activeWrites' = activeWrites
         \/ Held(s)' /\ ~Held(s) /\ activeWrites' = activeWrites + 1
         \/ ~Held(s)' /\ Held(s) /\ activeWrites' = activeWrites - 1
  BY <1>2, StartQueryBooks, StatementBooks, StatementFailsBooks, EndScriptBooks, AfterBooks,
     FillsBooks, OpeningBooks
     DEF Step, Fills, Warms, OpensOrCloses
<1>4. \A u \in Sessions \ {s} : SessionRight(u)' /\ (Held(u)' <=> Held(u))
  BY OthersUntouched, UntouchedStaysRight DEF Books, SessionsRight
<1>5. Counted'
  BY <1>3, <1>4, HolderChanges DEF Books
<1>6. SessionsRight'
  BY <1>3, <1>4 DEF SessionsRight
<1>. QED  BY <1>1, <1>5, <1>6 DEF Books

\* At the start no session is open and no bracket held.
LEMMA InitBooks ==
  ASSUME Init, Adapted = {}
  PROVE  Books
<1>1. TypeOK
  <2>1. NoChange \in [write : BOOLEAN, begins : BOOLEAN, ends : BOOLEAN] /\ <<>> \in Seq(Verbs)
    BY DEF NoChange
  <2>2. SessionsTyped
    BY <2>1 DEF Init, SessionsTyped
  <2>3. DatabaseTyped /\ CacheTyped /\ FillsTyped
    BY DefaultsTyped DEF Init, DatabaseTyped, CacheTyped, FillsTyped
  <2>. QED  BY <2>2, <2>3 DEF TypeOK
<1>2. SessionsRight
  BY DEF Init, SessionsRight, SessionRight, ScriptCovered, GuessRight, ContextRight,
         OwnBracketed, ListsRequested, Held, Querying, Nothing
<1>3. Holders = {}
  BY DEF Init, Holders, Held, Querying
<1>. QED  BY <1>1, <1>2, <1>3, FS_EmptySet DEF Books, Counted, Init

\* Books survives every step.
LEMMA BooksNext ==
  ASSUME Books, Adapted = {}, [Next]_vars
  PROVE  Books'
<1>1. CASE Next
  BY <1>1, StepKeepsBooks DEF Next
<1>2. CASE UNCHANGED vars
  BY <1>2 DEF vars, database, cache, warming, context, query, fill, Books, TypeOK,
     DatabaseTyped, CacheTyped, SessionsTyped, FillsTyped, Counted, Holders, SessionsRight,
     SessionRight, ScriptCovered, GuessRight, ContextRight, OwnBracketed, ListsRequested,
     Held, Querying
<1>. QED  BY <1>1, <1>2

-----------------------------------------------------------------------------
(* The catalog and the cache. *)

\* Writes that were not committed are bracketed while the session is no closer.
LEMMA UncommittedCounted ==
  ASSUME Books, NEW s \in Sessions, own[s] # Nothing, pc[s] # "closing"
  PROVE  Held(s) /\ activeWrites > 0
BY HeldIsCounted DEF Books, SessionsRight, SessionRight, OwnBracketed

\* The catalog changes while a bracket is open, and the cache does not then.
LEMMA CatalogSteps ==
  ASSUME Books, NEW s \in Sessions, Step(s), catalog' # catalog
  PROVE  activeWrites > 0 /\ UNCHANGED cache
<1>1. CASE Statement(s)
  <2>1. UNCHANGED cache /\ pc[s] = "running" /\ script[s] # <<>>
    BY <1>1 DEF Statement
  <2>2. Has(script[s], Head(script[s])) /\ Head(script[s]) \in Verbs
    BY <2>1, ScriptShrinks DEF Books, TypeOK, SessionsTyped
  <2>3. CASE Head(script[s]) = "write"
    <3>1. Held(s)
      BY <2>1, <2>2, <2>3 DEF Books, SessionsRight, SessionRight, ScriptCovered, Held, Querying
    <3>. QED  BY <2>1, <3>1, HeldIsCounted DEF Books
  <2>4. CASE Head(script[s]) = "commit"
    <3>1. DoCommit(s)
      BY <1>1, <2>4 DEF Statement
    <3>2. own[s] = Nothing => Merge(s) = catalog
      BY DEF Merge, Nothing, Books, TypeOK, DatabaseTyped
    <3>3. own[s] # Nothing
      BY <3>1, <3>2 DEF DoCommit
    <3>. QED  BY <2>1, <3>3, UncommittedCounted
  <2>5. CASE Head(script[s]) \in {"read", "begin", "rollback"}
    BY <1>1, <2>5 DEF Statement, DoRead, DoBegin, DoRollback
  <2>. QED  BY <2>2, <2>3, <2>4, <2>5 DEF Verbs
<1>2. CASE EndScript(s)
  <2>1. own[s] = Nothing => Merge(s) = catalog
    BY DEF Merge, Nothing, Books, TypeOK, DatabaseTyped
  <2>2. own[s] # Nothing /\ pc[s] = "running" /\ UNCHANGED cache
    BY <1>2, <2>1 DEF EndScript
  <2>. QED  BY <2>2, UncommittedCounted
<1>3. ~Statement(s) /\ ~EndScript(s) => UNCHANGED catalog
  BY DEF Step, StartQuery, StartNested, StatementFails, After, MissKind, MissColumns,
         TakeEpoch, Ask, AskFails, Store, OpenSession, AlreadyWarm, Warm, List, ListFails,
         StoreRow, EndListing, EndWarming, CloseContext, Disconnect, database
<1>. QED  BY <1>1, <1>2, <1>3

\* What is cached is committed, and a listed schema has nothing uncached; while
\* a bracket is open the cache is empty.
Quiet == activeWrites > 0 => (\A k \in Keys : cached[k] = Unknown) /\ listed = {}
EntriesTrue == \A k \in Keys : cached[k] # Unknown => cached[k] = catalog[k[2]]
ListedComplete ==
  \A S \in listed : \A r \in S : cached[<<"kind", r>>] = Unknown => catalog[r] = Absent

\* An answer that no invalidation overtook is still the catalog's, and the rows
\* of such a listing that are stored already are in the cache.
Noted(s) == pc[s] \in {"asking", "answered", "listing", "listed"} => asked[s] <= generation
AnswerTrue(s) == pc[s] \in {"answered", "listed"} /\ Fresh(s) => seen[s] = catalog
RowsStored(s) ==
  pc[s] = "listed" /\ Fresh(s) =>
    \A r \in schema[s] \ rows[s] :
      cached[<<"kind", r>>] # Unknown \/ catalog[r] = Absent
FillTrue(s) == Noted(s) /\ AnswerTrue(s) /\ RowsStored(s)

Coherent ==
  /\ Quiet /\ EntriesTrue /\ ListedComplete
  /\ \A s \in Sessions : FillTrue(s)

\* The ways a step treats the cache.
LEMMA CacheSteps ==
  ASSUME Books, NEW s \in Sessions, Step(s)
  PROVE  \/ UNCHANGED cache \/ BeginWrite \/ EndWrite
         \/ Store(s) \/ StoreRow(s) \/ EndListing(s)
<1>1. StartQuery(s) \/ StartNested(s) => UNCHANGED cache \/ BeginWrite
  BY DEF StartQuery, StartNested, Before
<1>2. After(s) \/ CloseContext(s) => UNCHANGED cache \/ EndWrite
  BY DEF After, Settle, CloseContext
<1>3. Statement(s) \/ StatementFails(s) \/ EndScript(s) \/ MissKind(s) \/ MissColumns(s)
      \/ TakeEpoch(s) \/ Ask(s) \/ AskFails(s) \/ OpenSession(s) \/ AlreadyWarm(s) \/ Warm(s)
      \/ List(s) \/ ListFails(s) \/ EndWarming(s) \/ Disconnect(s) => UNCHANGED cache
  BY DEF Statement, StatementFails, EndScript, MissKind, MissColumns, TakeEpoch, Ask, AskFails,
         OpenSession, AlreadyWarm, Warm, List, ListFails, EndWarming, Disconnect
<1>. QED  BY <1>1, <1>2, <1>3 DEF Step

\* Entries are only added, by a fill that nothing overtook, or all dropped.
LEMMA EntriesGrow ==
  ASSUME Books, Coherent, NEW s \in Sessions, Store(s) \/ StoreRow(s)
  PROVE  /\ generation' = generation /\ activeWrites' = activeWrites /\ listed' = listed
         /\ catalog' = catalog
         /\ \A k \in Keys :
              \/ cached'[k] = cached[k]
              \/ Fresh(s) /\ cached[k] = Unknown /\ cached'[k] = catalog[k[2]]
<1>. USE DEF Books, TypeOK, CacheTyped, FillsTyped
<1>1. CASE Store(s)
  <2>1. /\ pc[s] = "answered" /\ key[s] \in Keys /\ Put(s, key[s], seen[s][key[s][2]])
        /\ catalog' = catalog
    BY <1>1 DEF Store, database
  <2>2. Fresh(s) => seen[s] = catalog
    BY <2>1 DEF Coherent, FillTrue, AnswerTrue
  <2>. QED  BY <2>1, <2>2 DEF Put
<1>2. CASE StoreRow(s)
  <2>1. PICK r \in rows[s] : Put(s, <<"kind", r>>, seen[s][r])
    BY <1>2 DEF StoreRow
  <2>2. pc[s] = "listed" /\ catalog' = catalog /\ <<"kind", r>> \in Keys
    BY <1>2 DEF StoreRow, Keys, database
  <2>3. Fresh(s) => seen[s][r] = catalog[<<"kind", r>>[2]]
    BY <2>2 DEF Coherent, FillTrue, AnswerTrue
  <2>. DEFINE k == <<"kind", r>>
  <2>4. \A c \in Values \cup {Unknown} :
          Put(s, k, c) /\ (Fresh(s) => c = catalog[k[2]]) =>
            /\ generation' = generation /\ activeWrites' = activeWrites /\ listed' = listed
            /\ \A l \in Keys :
                 \/ cached'[l] = cached[l]
                 \/ Fresh(s) /\ cached[l] = Unknown /\ cached'[l] = catalog[l[2]]
    <3>. HIDE DEF k
    <3>. QED  BY <2>2 DEF Put, k
  <2>5. seen[s][r] \in Values \cup {Unknown}
    BY <2>1
  <2>. QED  BY <2>1, <2>2, <2>3, <2>4, <2>5
<1>. QED  BY <1>1, <1>2

\* The entries stay true.
LEMMA StepKeepsEntries ==
  ASSUME Books, Coherent, NEW s \in Sessions, Step(s)
  PROVE  Quiet' /\ EntriesTrue' /\ ListedComplete'
<1>. USE DEF Books, TypeOK, CacheTyped
<1>0. \A S \in Schemas : \A r \in S : <<"kind", r>> \in Keys /\ r \in Relations
  BY CacheAssumption DEF Keys
<1>1. CASE catalog' # catalog
  BY <1>0, <1>1, CatalogSteps DEF Coherent, Quiet, EntriesTrue, ListedComplete, cache
<1>2. CASE catalog' = catalog /\ UNCHANGED cache
  BY <1>2 DEF Coherent, Quiet, EntriesTrue, ListedComplete, cache
<1>3. CASE BeginWrite \/ EndWrite
  BY <1>3 DEF BeginWrite, EndWrite, Invalidate, Quiet, EntriesTrue, ListedComplete
<1>4. CASE Store(s) \/ StoreRow(s)
  <2>1. EntriesTrue'
    BY <1>4, EntriesGrow DEF Coherent, EntriesTrue
  <2>2. Quiet'
    BY <1>4, EntriesGrow DEF Coherent, Quiet, Fresh
  <2>3. ListedComplete'
    BY <1>0, <1>4, EntriesGrow DEF Coherent, ListedComplete
  <2>. QED  BY <2>1, <2>2, <2>3
<1>5. CASE EndListing(s)
  <2>1. /\ pc[s] = "listed" /\ rows[s] = {} /\ MarkListed(s, schema[s])
        /\ cached' = cached /\ generation' = generation /\ activeWrites' = activeWrites
        /\ catalog' = catalog
    BY <1>5 DEF EndListing, database
  <2>2. Fresh(s) => \A r \in schema[s] : cached[<<"kind", r>>] # Unknown \/ catalog[r] = Absent
    BY <2>1 DEF Coherent, FillTrue, RowsStored
  <2>. QED  BY <2>1, <2>2 DEF Coherent, Quiet, EntriesTrue, ListedComplete, MarkListed, Fresh
<1>. QED  BY <1>1, <1>2, <1>3, <1>4, <1>5, CacheSteps

\* What FillTrue reads of a session that takes no step stays as it is.
LEMMA OthersFills ==
  ASSUME TypeOK, NEW s \in Sessions, Step(s), NEW u \in Sessions \ {s}
  PROVE  /\ pc'[u] = pc[u] /\ asked'[u] = asked[u] /\ seen'[u] = seen[u]
         /\ schema'[u] = schema[u] /\ rows'[u] = rows[u]
<1>. USE DEF TypeOK, FillsTyped, fill, warming
<1>1. pc'[u] = pc[u] /\ schema'[u] = schema[u]
  BY OthersUntouched DEF Untouched
<1>2. CASE Fills(s)
  BY <1>1, <1>2 DEF Fills, MissKind, MissColumns, TakeEpoch, Ask, AskFails, Store, Forget
<1>3. CASE Warms(s)
  BY <1>1, <1>3 DEF Warms, AlreadyWarm, Warm, List, ListFails, StoreRow, EndListing, EndWarming,
                    Forget
<1>4. CASE OpensOrCloses(s)
  BY <1>1, <1>4 DEF OpensOrCloses, OpenSession, CloseContext, Disconnect
<1>5. StartQuery(s) \/ StartNested(s) \/ Statement(s) \/ StatementFails(s) \/ EndScript(s)
      \/ After(s) => asked' = asked /\ seen' = seen /\ rows' = rows
  BY DEF StartQuery, StartNested, Statement, StatementFails, EndScript, After
<1>. QED  BY <1>1, <1>2, <1>3, <1>4, <1>5 DEF Step, Fills, Warms, OpensOrCloses

\* The generation never falls, and whoever finds it unchanged finds the catalog
\* unchanged too, unless a bracket is open, and has lost no entry.
LEMMA GenerationGrows ==
  ASSUME Books, Coherent, NEW s \in Sessions, Step(s)
  PROVE  /\ generation' \in {generation, generation + 1}
         /\ generation' = generation =>
              /\ activeWrites' = activeWrites
              /\ catalog' = catalog \/ activeWrites > 0
              /\ \A k \in Keys : cached[k] # Unknown => cached'[k] # Unknown
<1>. USE DEF Books, TypeOK, CacheTyped
<1>1. CASE UNCHANGED cache
  BY <1>1, CatalogSteps DEF cache
<1>2. CASE BeginWrite \/ EndWrite
  BY <1>2 DEF BeginWrite, EndWrite, Invalidate
<1>3. CASE Store(s) \/ StoreRow(s)
  BY <1>3, EntriesGrow
<1>4. CASE EndListing(s)
  BY <1>4 DEF EndListing, database
<1>. QED  BY <1>1, <1>2, <1>3, <1>4, CacheSteps

\* The fills stay true.
LEMMA StepKeepsFills ==
  ASSUME Books, Coherent, NEW s \in Sessions, Step(s), NEW u \in Sessions
  PROVE  FillTrue(u)'
<1>. USE DEF Books, TypeOK, CacheTyped, FillsTyped
<1>1. FillTrue(u)
  BY DEF Coherent
<1>2. /\ generation' \in {generation, generation + 1}
      /\ generation' = generation =>
           /\ activeWrites' = activeWrites
           /\ catalog' = catalog \/ activeWrites > 0
           /\ \A k \in Keys : cached[k] # Unknown => cached'[k] # Unknown
  BY GenerationGrows
<1>3. \A r \in schema[u] : <<"kind", r>> \in Keys
  BY CacheAssumption DEF Keys
<1>4. ASSUME pc'[u] = pc[u], asked'[u] = asked[u], seen'[u] = seen[u],
             schema'[u] = schema[u], rows'[u] = rows[u]
      PROVE  FillTrue(u)'
  <2>1. Noted(u)'
    BY <1>1, <1>2, <1>4 DEF FillTrue, Noted
  <2>2. pc'[u] \in {"answered", "listed"} /\ Fresh(u)' =>
          Fresh(u) /\ catalog' = catalog /\ generation' = generation
    <3>. SUFFICES ASSUME pc'[u] \in {"answered", "listed"}, activeWrites' = 0,
                         generation' = asked'[u]
                  PROVE  Fresh(u) /\ catalog' = catalog /\ generation' = generation
      BY DEF Fresh
    <3>1. asked[u] \in Nat /\ asked[u] <= generation
      BY <1>1, <1>4 DEF FillTrue, Noted
    <3>2. asked[u] # generation + 1
      BY <3>1
    <3>. QED  BY <1>2, <1>4, <3>2 DEF Fresh
  <2>3. AnswerTrue(u)'
    BY <1>1, <1>4, <2>2 DEF FillTrue, AnswerTrue
  <2>4. RowsStored(u)'
    BY <1>1, <1>2, <1>3, <1>4, <2>2 DEF FillTrue, RowsStored
  <2>. QED  BY <2>1, <2>3, <2>4 DEF FillTrue
<1>5. CASE u # s
  BY <1>4, <1>5, OthersFills
<1>6. CASE Ask(s) /\ u = s
  BY <1>1, <1>6 DEF Ask, Goto, FillTrue, Noted, AnswerTrue, RowsStored, cache, database, fill,
                    SessionsTyped
<1>7. CASE List(s) /\ u = s
  <2>1. PICK S \in todo[s] :
          /\ rows' = [rows EXCEPT ![s] = {r \in S : catalog[r] # Absent}]
          /\ schema' = [schema EXCEPT ![s] = S]
    BY <1>7 DEF List
  <2>2. /\ pc[s] = "listing" /\ pc'[s] = "listed" /\ seen'[s] = catalog
        /\ asked' = asked /\ generation' = generation /\ catalog' = catalog
    BY <1>7 DEF List, Goto, cache, database, SessionsTyped
  <2>3. \A r \in schema'[s] \ rows'[s] : catalog[r] = Absent
    BY <2>1
  <2>. QED  BY <1>1, <1>7, <2>2, <2>3 DEF FillTrue, Noted, AnswerTrue, RowsStored
<1>8. CASE StoreRow(s) /\ u = s
  <2>1. PICK r \in rows[s] :
          /\ Put(s, <<"kind", r>>, seen[s][r])
          /\ rows' = [rows EXCEPT ![s] = @ \ {r}]
    BY <1>8 DEF StoreRow
  <2>2. /\ pc[s] = "listed" /\ pc' = pc /\ asked' = asked /\ seen' = seen
        /\ schema' = schema /\ catalog' = catalog
        /\ generation' = generation /\ activeWrites' = activeWrites
    BY <1>8, EntriesGrow DEF StoreRow, fill
  <2>3. Fresh(s)' <=> Fresh(s)
    BY <2>2 DEF Fresh
  <2>4. seen[s][r] = catalog[r] /\ Fresh(s) => cached'[<<"kind", r>>] # Unknown
    <3>1. catalog[r] # Unknown /\ <<"kind", r>> \in Keys
      BY CacheAssumption DEF DatabaseTyped, Keys
    <3>. QED  BY <2>1, <3>1 DEF Put
  <2>5. RowsStored(s)'
    BY <1>1, <1>2, <1>3, <1>8, <2>1, <2>2, <2>3, <2>4 DEF FillTrue, AnswerTrue, RowsStored
  <2>6. Noted(s)' /\ AnswerTrue(s)'
    BY <1>1, <1>8, <2>2, <2>3 DEF FillTrue, Noted, AnswerTrue
  <2>. QED  BY <1>8, <2>5, <2>6 DEF FillTrue
<1>9. CASE u = s /\ ~Ask(s) /\ ~List(s) /\ ~StoreRow(s)
  <2>1. pc'[s] \notin {"answered", "listed"}
    <3>2. StartQuery(s) \/ StartNested(s) => pc'[s] \in {"running", "adapting"}
      BY DEF StartQuery, StartNested, Goto, SessionsTyped
    <3>3. Statement(s) \/ StatementFails(s) \/ EndScript(s) => pc'[s] \in {"running", "ended"}
      BY DEF Statement, StatementFails, EndScript, Goto, SessionsTyped
    <3>4. After(s) => pc'[s] \in {"idle", "ended"}
      BY DEF After, Goto, SessionsTyped
    <3>5. Fills(s) => pc'[s] \in {"missed", "asking", "idle"}
      BY <1>9 DEF Fills, MissKind, MissColumns, TakeEpoch, AskFails, Store, Goto, SessionsTyped
    <3>6. Warms(s) => pc'[s] \in {"listing", "idle", "closing"}
      BY <1>9 DEF Warms, AlreadyWarm, Warm, ListFails, EndListing, EndWarming, Goto, SessionsTyped
    <3>7. OpensOrCloses(s) => pc'[s] \in {"opening", "idle", "closing", "closed"}
      BY DEF OpensOrCloses, OpenSession, CloseContext, Disconnect, Goto, SessionsTyped
    <3>. QED  BY <3>2, <3>3, <3>4, <3>5, <3>6, <3>7 DEF Step, Fills, Warms, OpensOrCloses
  <2>2. pc'[s] \in {"asking", "listing"} =>
          \/ asked'[s] = generation
          \/ asked' = asked /\ pc[s] = "listed"
    <3>1. ~Fills(s) /\ ~Warms(s) => pc'[s] \notin {"asking", "listing"}
      BY DEF Step, Fills, Warms, StartQuery, StartNested, Statement, StatementFails, EndScript,
             After, OpenSession, CloseContext, Disconnect, Goto, SessionsTyped
    <3>2. Fills(s) /\ pc'[s] = "asking" => asked'[s] = generation
      BY <1>9 DEF Fills, MissKind, MissColumns, TakeEpoch, AskFails, Store, Goto, SessionsTyped
    <3>3. Fills(s) => pc'[s] # "listing"
      BY <1>9 DEF Fills, MissKind, MissColumns, TakeEpoch, AskFails, Store, Goto, SessionsTyped
    <3>4. Warms(s) /\ pc'[s] = "listing" =>
            asked'[s] = generation \/ (asked' = asked /\ pc[s] = "listed")
      BY <1>9 DEF Warms, AlreadyWarm, Warm, ListFails, EndListing, EndWarming, Goto, SessionsTyped
    <3>5. Warms(s) => pc'[s] # "asking"
      BY <1>9 DEF Warms, AlreadyWarm, Warm, ListFails, EndListing, EndWarming, Goto, SessionsTyped
    <3>. QED  BY <3>1, <3>2, <3>3, <3>4, <3>5
  <2>. QED  BY <1>1, <1>2, <1>9, <2>1, <2>2 DEF FillTrue, Noted, AnswerTrue, RowsStored
<1>. QED  BY <1>5, <1>6, <1>7, <1>8, <1>9

\* Coherence survives every step.
LEMMA CoherentNext ==
  ASSUME Books, Coherent, [Next]_vars
  PROVE  Coherent'
<1>1. CASE Next
  BY <1>1, StepKeepsEntries, StepKeepsFills DEF Next, Coherent
<1>2. CASE UNCHANGED vars
  BY <1>2 DEF vars, database, cache, warming, fill, Coherent, Quiet, EntriesTrue,
     ListedComplete, FillTrue, Noted, AnswerTrue, RowsStored, Fresh
<1>. QED  BY <1>1, <1>2

-----------------------------------------------------------------------------
(* The theorems: every script is bracketed once. *)

\* The invariant holds in every reachable state.
LEMMA Invariant ==
  ASSUME Adapted = {}
  PROVE  Spec => [](Books /\ Coherent)
<1>1. Init => Books /\ Coherent
  BY InitBooks DEF Init, Coherent, Quiet, EntriesTrue, ListedComplete, FillTrue, Noted,
     AnswerTrue, RowsStored
<1>2. Books /\ Coherent /\ [Next]_vars => (Books /\ Coherent)'
  BY BooksNext, CoherentNext
<1>. QED  BY <1>1, <1>2, PTL DEF Spec

\* Every variable keeps its type: in particular endWrite, called once per
\* bracket, never finds the counter at zero.
THEOREM TypesHold ==
  ASSUME Adapted = {}
  PROVE  Spec => []TypeOK
<1>1. Books => TypeOK
  BY DEF Books
<1>. QED  BY <1>1, Invariant, PTL

\* Whatever the cache would answer is what the catalog holds, however fills,
\* listings, writes and commits of the sessions interleave.
THEOREM AnswersAreTrue ==
  ASSUME Adapted = {}
  PROVE  Spec => []Truthful
<1>1. Books /\ Coherent => Truthful
  <2>. SUFFICES ASSUME Books, Coherent, NEW k \in Keys, Found(k)
                PROVE  Answer(k) = catalog[k[2]]
    BY DEF Truthful
  <2>1. CASE cached[k] # Unknown
    BY <2>1 DEF Answer, Coherent, EntriesTrue
  <2>2. CASE cached[k] = Unknown
    <3>1. PICK S \in listed : k[2] \in S /\ k[1] = "kind"
      BY <2>2 DEF Found, IsListed
    <3>2. k = <<"kind", k[2]>>
      BY <3>1 DEF Keys
    <3>. QED  BY <2>2, <3>1, <3>2 DEF Answer, Coherent, ListedComplete
  <2>. QED  BY <2>1, <2>2
<1>. QED  BY <1>1, Invariant, PTL

\* A session that consults the cache is outside any transaction, whatever its
\* scripts did and wherever they failed.
THEOREM UsersAreOutside ==
  ASSUME Adapted = {}
  PROVE  Spec => []UsersSeeTheCatalog
<1>1. Books => UsersSeeTheCatalog
  BY DEF Books, SessionsRight, SessionRight, ContextRight, OwnBracketed, Held, Querying,
         UsersSeeTheCatalog, Usable
<1>. QED  BY <1>1, Invariant, PTL

\* Between a write and its commit or rollback a bracket is open.
THEOREM UncommittedIsAlwaysBracketed ==
  ASSUME Adapted = {}
  PROVE  Spec => []UncommittedIsBracketed
<1>1. Books => UncommittedIsBracketed
  BY UncommittedCounted DEF UncommittedIsBracketed
<1>. QED  BY <1>1, Invariant, PTL

\* Sessions out of transactions leave no bracket behind.
THEOREM AlwaysReleased ==
  ASSUME Adapted = {}
  PROVE  Spec => []ReleasedWhenQuiet
<1>1. Books => ReleasedWhenQuiet
  <2>. SUFFICES ASSUME Books,
                       \A s \in Sessions : pc[s] = "closed" \/ (pc[s] = "idle" /\ Usable(s))
                PROVE  activeWrites = 0
    BY DEF ReleasedWhenQuiet
  <2>1. \A s \in Sessions : ~Held(s)
    BY DEF Books, SessionsRight, SessionRight, ContextRight, Held, Querying, Usable
  <2>2. Holders = {}
    BY <2>1 DEF Holders
  <2>. QED  BY <2>2, FS_EmptySet DEF Books, Counted
<1>. QED  BY <1>1, Invariant, PTL

\* The catalog never changes outside a bracket.
THEOREM CommitsAreAlwaysBracketed ==
  ASSUME Adapted = {}
  PROVE  Spec => CommitsAreBracketed
<1>1. Books /\ [Next]_vars => [catalog' # catalog => activeWrites > 0]_vars
  BY CatalogSteps DEF Next
<1>. QED  BY <1>1, Invariant, PTL DEF Spec, CommitsAreBracketed
=============================================================================
