------------------------ MODULE RequestHandlerProofs ------------------------
(***************************************************************************)
(* Proofs about RequestHandler.  The inductive invariant says of every     *)
(* thread, at each step of its request, how often the procedure ran, which *)
(* result waits on its connection, what its variable holds and, as long as *)
(* the environment does its part, that the next step has what it needs or  *)
(* is starved by results that were not read.                               *)
(***************************************************************************)
EXTENDS RequestHandler, LoopLemmas

\* c, p, r, x, g, e and f are the connection, the step, the request, the
\* variable, what the CALL gave, how often it ran, and fault.

\* A result waits where it is stored and nowhere else, and has been run for.
Counted(c, p, r, g, e) ==
    /\ p \in {"idle", "connect", "call"} => e = 0
    /\ p = "store" => /\ e <= 1
                      /\ c.waiting # NoResult => e = 1 /\ c.waiting = g.res
    /\ p \in {"select", "fetch", "serialize", "answered"} => e = 1
    /\ p \notin {"store", "fetch"} => c.waiting = NoResult
    /\ p \in {"store", "select", "fetch", "serialize", "answered"} => Callable(r.tid, r.var)

\* The variable is the request's until its own rows are stored in it.
Kept(p, r, x, g) ==
    /\ p \in {"connect", "call", "store"} => x = r.var
    /\ (p \in {"select", "fetch"} \/ (p \in {"serialize", "answered"} /\ Outs(r.tid) = <<>>)) =>
          g.res \in Tables /\ x = StoreRows(r.tid, g.res, r.var)
    /\ p \in {"select", "fetch"} => Outs(r.tid) # <<>>

\* The CALL gave what suits the request, and the connection has its out values.
Suited(c, r, g) ==
    /\ g.res \in Tables /\ Suits(r, g.res, g.outs)
    /\ g.outs \in [1..Len(Outs(r.tid)) -> Values \cup {Null}] /\ c.outs = g.outs

\* Without a fault every step finds what it needs, or there are results to read.
Unharmed(c, p, r, x, g, e) ==
    /\ c.state # "closed"
    /\ p \in Steps => Servable(r)
    /\ p \in Steps \ {"connect"} => c.state = "open"
    /\ p = "store" => \/ e = 0 /\ c.more > 0
                      \/ Suited(c, r, g) /\ c.waiting = g.res
    /\ p \in {"select", "fetch"} => Suited(c, r, g)
    /\ p = "fetch" => \/ c.waiting = NoResult /\ c.more > 0
                      \/ c.waiting = [columns |-> Len(g.outs), rows |-> <<g.outs>>]
    /\ p = "serialize" => Serializable(r.tid, x)

WorkerOK(c, p, r, x, g, e, f) ==
    Counted(c, p, r, g, e) /\ Kept(p, r, x, g) /\ (f \/ Unharmed(c, p, r, x, g, e))

IInv ==
    /\ TypeOK
    /\ \A w \in Workers :
          WorkerOK(conn[w], pc[w], req[w], var[w], given[w], executed[w], fault)
    /\ OnlyUnreadKills

-----------------------------------------------------------------------------
(* The loops of invoke.                                                    *)

\* Place n of a table of L rows and W columns has a row and a column ...
LEMMA RowAndColumn ==
    ASSUME NEW L \in Nat, NEW W \in Nat, NEW n \in 1..L * W
    PROVE  (n - 1) \div W \in 0..L - 1 /\ ((n - 1) % W) + 1 \in 1..W
<1>1. W # 0 /\ W > 0
  <2>1. W = 0 => L * W = 0
    OBVIOUS
  <2> QED BY <2>1
<1>2. n - 1 \in Nat /\ L * W \in Nat
  OBVIOUS
<1> DEFINE q == (n - 1) \div W
           r == (n - 1) % W
<1>3. q \in Int /\ r \in 0..W - 1 /\ n - 1 = W * q + r
  BY <1>1, <1>2
<1> HIDE DEF q, r
<1>4. q >= 0
  <2>1. q < 0 => W * q <= W * (-1)
    BY <1>1, <1>3
  <2> QED BY <1>1, <1>2, <1>3, <2>1
<1>5. q < L
  <2>1. q >= L => W * q >= W * L
    BY <1>1, <1>3
  <2> QED BY <1>1, <1>2, <1>3, <2>1
<1> QED BY <1>1, <1>3, <1>4, <1>5 DEF q, r

\* ... and column d of row j has a place.
LEMMA PlaceOf ==
    ASSUME NEW L \in Nat, NEW W \in Nat, NEW j \in 0..L - 1, NEW d \in 1..W
    PROVE  /\ j * W + d \in 1..L * W
           /\ ((j * W + d) - 1) \div W = j /\ ((j * W + d) - 1) % W = d - 1
<1>1. W > 0 /\ j * W \in Nat /\ (j + 1) * W <= L * W /\ (j + 1) * W = j * W + W
  OBVIOUS
<1>2. j * W + d \in 1..L * W
  BY <1>1
<1> DEFINE m == (j * W + d) - 1
           q == m \div W
           r == m % W
<1>3. m = W * j + (d - 1) /\ m \in Nat
  BY <1>1
<1>4. q \in Int /\ r \in 0..W - 1 /\ m = W * q + r
  <2> HIDE DEF m
  <2> QED BY <1>1, <1>3
<1> HIDE DEF q, r, m
<1>5. q = j
  <2>1. q < j => W * q <= W * (j - 1)
    BY <1>1, <1>4
  <2>2. q > j => W * q >= W * (j + 1)
    BY <1>1, <1>4
  <2>3. W * (j - 1) = W * j - W /\ W * (j + 1) = W * j + W /\ W * j \in Int
    OBVIOUS
  <2> QED BY <1>1, <1>3, <1>4, <2>1, <2>2, <2>3
<1>6. r = d - 1
  BY <1>3, <1>4, <1>5
<1> QED BY <1>2, <1>5, <1>6 DEF q, r, m

\* What a number of columns and rows are.
LEMMA TableFacts ==
    ASSUME NEW tid \in DOMAIN Functions, NEW t \in Tables
    PROVE  /\ Len(t.rows) \in Nat /\ Width(tid, t) \in Nat
           /\ Width(tid, t) <= t.columns /\ Width(tid, t) <= Len(Results(tid))
           /\ Len(Results(tid)) \in Nat /\ Len(Outs(tid)) \in Nat
           /\ t.columns \in Nat /\ t # NoResult
           /\ t.columns >= Len(Results(tid)) => Width(tid, t) = Len(Results(tid))
<1>1. t.columns \in Nat \ {0} /\ t.rows \in Seq(Columns)
  BY HandlerAssumption
<1>2. Len(t.rows) \in Nat
  BY <1>1, LenProperties
<1>3. Len(Results(tid)) \in Nat /\ Len(Outs(tid)) \in Nat
  BY HandlerAssumption, LenProperties DEF IsVector, Results, Outs
<1>4. t # NoResult
  BY <1>1 DEF NoResult
<1> QED BY <1>1, <1>2, <1>3, <1>4 DEF Width, Least

RowWrite(tid, t, row, col) ==
    [fid |-> ftdc_path(Results(tid)[col]).fid, idx |-> row,
     item |-> ftdc_path(Results(tid)[col]).item,
     value |-> ValueFrom(ftdc_path(Results(tid)[col]).item, t.rows[row + 1][col])]

\* The calls of set_field_item for the rows of t.
RowWrites(tid, t) ==
    [n \in 1..Len(t.rows) * Width(tid, t) |->
        RowWrite(tid, t, (n - 1) \div Width(tid, t), ((n - 1) % Width(tid, t)) + 1)]

\* They are one for each row and column.
LEMMA RowWritesFacts ==
    ASSUME NEW tid \in DOMAIN Functions, NEW t \in Tables
    PROVE  /\ AreWrites(RowWrites(tid, t), Len(t.rows) * Width(tid, t))
           /\ \A n \in 1..Len(t.rows) * Width(tid, t) :
                 \E row \in 0..Len(t.rows) - 1, col \in 1..Width(tid, t) :
                    RowWrites(tid, t)[n] = RowWrite(tid, t, row, col)
           /\ \A row \in 0..Len(t.rows) - 1, col \in 1..Width(tid, t) :
                 \E n \in 1..Len(t.rows) * Width(tid, t) :
                    RowWrites(tid, t)[n] = RowWrite(tid, t, row, col)
<1>0. PICK L \in Nat, W \in Nat : L = Len(t.rows) /\ W = Width(tid, t)
  BY TableFacts
<1>1. \A n \in 1..L * W : RowWrites(tid, t)[n] = RowWrite(tid, t, (n - 1) \div W, ((n - 1) % W) + 1)
  BY <1>0 DEF RowWrites
<1>2. ASSUME NEW n \in 1..L * W
      PROVE  \E row \in 0..L - 1, col \in 1..W : RowWrites(tid, t)[n] = RowWrite(tid, t, row, col)
  BY <1>1, RowAndColumn
<1>3. ASSUME NEW row \in 0..L - 1, NEW col \in 1..W
      PROVE  \E n \in 1..L * W : RowWrites(tid, t)[n] = RowWrite(tid, t, row, col)
  <2> DEFINE n == row * W + col
  <2>1. n \in 1..L * W /\ (n - 1) \div W = row /\ (n - 1) % W = col - 1
    BY PlaceOf
  <2> HIDE DEF n
  <2>2. ((n - 1) % W) + 1 = col
    BY <2>1
  <2>3. RowWrites(tid, t)[n] = RowWrite(tid, t, row, col)
    BY <2>1, <2>2, <1>1
  <2> QED BY <2>1, <2>3
<1>4. \A n \in 1..L * W : RowWrites(tid, t)[n].idx \in Nat
  <2> TAKE n \in 1..L * W
  <2>1. PICK row \in 0..L - 1, col \in 1..W : RowWrites(tid, t)[n] = RowWrite(tid, t, row, col)
    BY <1>2
  <2> QED BY <2>1 DEF RowWrite
<1>5. L * W \in Nat
  OBVIOUS
<1> QED BY <1>0, <1>2, <1>3, <1>4, <1>5 DEF AreWrites

\* StoreRows is that loop.
LEMMA StoreRowsSets ==
    ASSUME NEW tid \in DOMAIN Functions, NEW t \in Tables, NEW v, IsVariable(v)
    PROVE  SetBy(StoreRows(tid, t, v), v, RowWrites(tid, t), Len(t.rows) * Width(tid, t))
<1> DEFINE N == Len(t.rows) * Width(tid, t)
           writes == RowWrites(tid, t)
           Body(f) == [n \in 0..N |->
               IF n = 0 THEN v
               ELSE set_field_item(f[n - 1], ftdc_path(Results(tid)[((n - 1) % Width(tid, t)) + 1]).fid,
                                   (n - 1) \div Width(tid, t),
                                   ftdc_path(Results(tid)[((n - 1) % Width(tid, t)) + 1]).item,
                                   ValueFrom(ftdc_path(Results(tid)[((n - 1) % Width(tid, t)) + 1]).item,
                                   t.rows[((n - 1) \div Width(tid, t)) + 1][((n - 1) % Width(tid, t)) + 1]))]
           set == CHOOSE f : f = Body(f)
<1>1. StoreRows(tid, t, v) = set[N]
  BY Zenon DEF StoreRows
<1>2. AreWrites(writes, N) /\ N \in Nat
  BY RowWritesFacts DEF AreWrites
<1>3. ASSUME NEW f PROVE f = Body(f) <=> Sets(f, N, v, writes)
  <2>1. ASSUME NEW n \in 1..N
        PROVE  SetOne(f[n - 1], writes[n])
               = set_field_item(f[n - 1], ftdc_path(Results(tid)[((n - 1) % Width(tid, t)) + 1]).fid,
                                (n - 1) \div Width(tid, t),
                                ftdc_path(Results(tid)[((n - 1) % Width(tid, t)) + 1]).item,
                                ValueFrom(ftdc_path(Results(tid)[((n - 1) % Width(tid, t)) + 1]).item,
                                   t.rows[((n - 1) \div Width(tid, t)) + 1][((n - 1) % Width(tid, t)) + 1]))
    <3>1. writes[n] = RowWrite(tid, t, (n - 1) \div Width(tid, t), ((n - 1) % Width(tid, t)) + 1)
      BY DEF RowWrites
    <3> QED BY <3>1 DEF SetOne, RowWrite
  <2> DEFINE turn(n) == SetOne(f[n - 1], writes[n])
  <2>2. Body(f) = [n \in 0..N |-> IF n = 0 THEN v ELSE turn(n)]
    <3>1. \A n \in 0..N : n # 0 => n \in 1..N
      BY <1>2
    <3> QED BY <3>1, <2>1
  <2> HIDE DEF Body, N, writes
  <2>3. f = [n \in 0..N |-> IF n = 0 THEN v ELSE turn(n)]
        <=> /\ f = [n \in 0..N |-> f[n]] /\ f[0] = v
            /\ \A n \in 1..N : f[n] = turn(n)
    <3> HIDE DEF turn
    <3> QED BY <1>2
  <2> QED BY <2>2, <2>3 DEF Sets
<1>4. \E f : f = Body(f)
  BY <1>2, <1>3, SetsExists
<1>5. set = Body(set)
  BY <1>4
<1> HIDE DEF set, Body, N, writes
<1>6. Sets(set, N, v, writes)
  BY <1>3, <1>5
<1>7. SetBy(set[N], v, writes, N)
  BY <1>2, <1>6, SetsFacts
<1> QED BY <1>1, <1>7 DEF N, writes

\* The calls of set_field_item for the out values.
OutWrite(tid, row, n) ==
    [fid |-> ftdc_path(Results(tid)[n]).fid, idx |-> ftdc_path(Results(tid)[n]).idx,
     item |-> ftdc_path(Results(tid)[n]).item,
     value |-> ValueFrom(ftdc_path(Results(tid)[n]).item, row[n])]

OutWrites(tid, row) == [n \in 1..Len(Outs(tid)) |-> OutWrite(tid, row, n)]

\* The loop of StoreOuts is over the out values.
LEMMA StoreOutsSets ==
    ASSUME NEW tid \in DOMAIN Functions, Len(Outs(tid)) <= Len(Results(tid)),
           NEW row, NEW v, IsVariable(v)
    PROVE  SetBy(StoreOuts(tid, row, v), v, OutWrites(tid, row), Len(Outs(tid)))
<1> DEFINE N == Len(Outs(tid))
           writes == OutWrites(tid, row)
           Body(f) == [n \in 0..N |->
               IF n = 0 THEN v
               ELSE set_field_item(f[n - 1], ftdc_path(Results(tid)[n]).fid, ftdc_path(Results(tid)[n]).idx,
                                   ftdc_path(Results(tid)[n]).item,
                                   ValueFrom(ftdc_path(Results(tid)[n]).item, row[n]))]
           set == CHOOSE f : f = Body(f)
<1>1. StoreOuts(tid, row, v) = set[N]
  BY Zenon DEF StoreOuts
<1>2. AreWrites(writes, N) /\ N \in Nat
  <2>1. N \in Nat /\ Len(Results(tid)) \in Nat
    BY HandlerAssumption, LenProperties DEF IsVector, Results, Outs
  <2>2. \A n \in 1..N : ftdc_path(Results(tid)[n]).idx \in Nat
    <3>1. \A n \in 1..N : n \in 1..Len(Results(tid))
      BY <2>1
    <3> QED BY <3>1, HandlerAssumption DEF Results
  <2>3. \A n \in 1..N : writes[n].idx = ftdc_path(Results(tid)[n]).idx
    BY DEF OutWrites, OutWrite
  <2> QED BY <2>1, <2>2, <2>3 DEF AreWrites
<1>3. ASSUME NEW f PROVE f = Body(f) <=> Sets(f, N, v, writes)
  <2>1. ASSUME NEW n \in 1..N
        PROVE  SetOne(f[n - 1], writes[n])
               = set_field_item(f[n - 1], ftdc_path(Results(tid)[n]).fid, ftdc_path(Results(tid)[n]).idx,
                                ftdc_path(Results(tid)[n]).item,
                                   ValueFrom(ftdc_path(Results(tid)[n]).item, row[n]))
    <3>1. writes[n] = OutWrite(tid, row, n)
      BY DEF OutWrites
    <3> QED BY <3>1 DEF SetOne, OutWrite
  <2> DEFINE turn(n) == SetOne(f[n - 1], writes[n])
  <2>2. Body(f) = [n \in 0..N |-> IF n = 0 THEN v ELSE turn(n)]
    <3>1. \A n \in 0..N : n # 0 => n \in 1..N
      BY <1>2
    <3> QED BY <3>1, <2>1
  <2> HIDE DEF Body, N, writes
  <2>3. f = [n \in 0..N |-> IF n = 0 THEN v ELSE turn(n)]
        <=> /\ f = [n \in 0..N |-> f[n]] /\ f[0] = v
            /\ \A n \in 1..N : f[n] = turn(n)
    <3> HIDE DEF turn
    <3> QED BY <1>2
  <2> QED BY <2>2, <2>3 DEF Sets
<1>4. \E f : f = Body(f)
  BY <1>2, <1>3, SetsExists
<1>5. set = Body(set)
  BY <1>4
<1> HIDE DEF set, Body, N, writes
<1>6. Sets(set, N, v, writes)
  BY <1>3, <1>5
<1>7. SetBy(set[N], v, writes, N)
  BY <1>2, <1>6, SetsFacts
<1> QED BY <1>1, <1>7 DEF N, writes

-----------------------------------------------------------------------------
(* What is stored can be serialized.                                       *)

\* How often a field occurs once the rows of t are stored.
RowCount(r, t, f) ==
    LET rows == IF f.name \in ResultFields(r.tid, t) THEN Len(t.rows) ELSE 0
    IN  IF rows > field_count(r.var, f.name) THEN rows ELSE field_count(r.var, f.name)

\* The variable has the occurrences of the response and all of their items.
Completed(x, r, t) ==
    /\ IsVariable(x)
    /\ \A f \in Response[r.tid] :
          /\ field_count(x, f.name) = RowCount(r, t, f)
          /\ \A j \in 0..field_count(x, f.name) - 1 : \A i \in f.items : HasValue(x, f.name, j, i)

\* A completed variable is one that serialize_ftdc_content returns for.
LEMMA CompletedSerializable ==
    ASSUME NEW r \in Requests, Servable(r), NEW t, NEW o, Suits(r, t, o), NEW x, Completed(x, r, t)
    PROVE  Serializable(r.tid, x)
<1>1. \A f \in Response[r.tid] : f.defined /\ f.items \subseteq Items
  BY HandlerAssumption DEF Servable
<1> QED BY <1>1 DEF Suits, Completed, Serializable, RowCount

\* Every column of a row that suits makes a value.
LEMMA RowGivesValue ==
    ASSUME NEW r \in Requests, r.tid \in DOMAIN Functions, Servable(r),
           NEW t \in Tables, NEW o, Suits(r, t, o),
           NEW row \in 0..Len(t.rows) - 1, NEW col \in 1..Width(r.tid, t)
    PROVE  RowWrite(r.tid, t, row, col).value # NoValue
<1>1. /\ Len(t.rows) \in Nat /\ Width(r.tid, t) \in Nat /\ t.columns \in Nat
      /\ Width(r.tid, t) <= t.columns /\ Width(r.tid, t) <= Len(Results(r.tid))
      /\ Len(Results(r.tid)) \in Nat
  BY TableFacts
<1>2. row + 1 \in 1..Len(t.rows) /\ col \in 1..t.columns /\ col \in 1..Len(Results(r.tid))
  BY <1>1
<1>3. t.rows \in Seq(Columns) /\ Len(t.rows[row + 1]) = t.columns
  BY <1>2, HandlerAssumption
<1>4. t.rows[row + 1] \in Columns
  BY <1>2, <1>3, ElementOfSeq
<1>5. t.rows[row + 1][col] \in Values \cup {Null}
  BY <1>2, <1>3, <1>4, ElementOfSeq DEF Columns
<1>6. t.rows[row + 1][col] # Null
  BY <1>2 DEF Suits
<1>7. ItemOf(Results(r.tid)[col]) \in Typed
  BY <1>2 DEF Servable
<1>8. RowWrite(r.tid, t, row, col).value = t.rows[row + 1][col]
  BY <1>7 DEF RowWrite, ValueFrom, ItemOf
<1> QED BY <1>5, <1>6, <1>8, HandlerAssumption

\* The rows complete the variable of a request that they suit.
LEMMA RowsComplete ==
    ASSUME NEW r \in Requests, r.tid \in DOMAIN Functions, Servable(r),
           NEW t \in Tables, NEW o, Suits(r, t, o)
    PROVE  Completed(StoreRows(r.tid, t, r.var), r, t)
<1> DEFINE tid == r.tid
           N == Len(t.rows) * Width(tid, t)
           writes == RowWrites(tid, t)
           x == StoreRows(tid, t, r.var)
<1>1. IsVariable(r.var)
  BY HandlerAssumption
<1>2. SetBy(x, r.var, writes, N)
  BY <1>1, StoreRowsSets
<1>3. /\ Len(t.rows) \in Nat /\ Width(tid, t) \in Nat /\ Width(tid, t) = Len(Results(tid))
  BY TableFacts DEF Suits
<1>4. /\ \A n \in 1..N : \E row \in 0..Len(t.rows) - 1, col \in 1..Width(tid, t) :
            writes[n] = RowWrite(tid, t, row, col)
      /\ \A row \in 0..Len(t.rows) - 1, col \in 1..Width(tid, t) : \E n \in 1..N :
            writes[n] = RowWrite(tid, t, row, col)
  BY RowWritesFacts
<1>5. /\ IsVariable(x)
      /\ \A g : \A j \in Nat : \A i :
            HasItem(x, g, j, i) <=>
               HasItem(r.var, g, j, i) \/ \E k \in 1..N : Targets(writes[k], g, j, i)
      /\ \A g : \A j \in Nat : \A i : HasItem(x, g, j, i) =>
            \/ \E k \in 1..N : Targets(writes[k], g, j, i) /\ get_field_item(x, g, j, i) = writes[k].value
            \/ /\ \A k \in 1..N : ~Targets(writes[k], g, j, i)
               /\ get_field_item(x, g, j, i) = get_field_item(r.var, g, j, i)
      /\ \A g : /\ field_count(x, g) >= field_count(r.var, g)
                /\ \A k \in 1..N : writes[k].fid = g => field_count(x, g) > writes[k].idx
                /\ \/ field_count(x, g) = field_count(r.var, g)
                   \/ \E k \in 1..N : writes[k].fid = g /\ field_count(x, g) = writes[k].idx + 1
  BY <1>2 DEF SetBy
<1> HIDE DEF x, N, writes
<1>6. ASSUME NEW f \in Response[tid] PROVE field_count(x, f.name) = RowCount(r, t, f)
  <2> DEFINE g == f.name
  <2>1. field_count(x, g) \in Nat /\ field_count(r.var, g) \in Nat
    BY <1>1, <1>5, FieldCount
  <2>2. ASSUME NEW k \in 1..N, writes[k].fid = g
        PROVE  writes[k].idx + 1 <= Len(t.rows) /\ g \in ResultFields(tid, t) /\ writes[k].idx \in Nat
    <3>1. PICK row \in 0..Len(t.rows) - 1, col \in 1..Width(tid, t) : writes[k] = RowWrite(tid, t, row, col)
      BY <1>4
    <3>2. writes[k].idx = row /\ ftdc_path(Results(tid)[col]).fid = g
      BY <3>1, <2>2 DEF RowWrite
    <3> QED BY <3>2, <1>3 DEF ResultFields
  <2>3. \/ field_count(x, g) = field_count(r.var, g)
        \/ g \in ResultFields(tid, t) /\ field_count(x, g) <= Len(t.rows)
    <3>1. \/ field_count(x, g) = field_count(r.var, g)
          \/ \E k \in 1..N : writes[k].fid = g /\ field_count(x, g) = writes[k].idx + 1
      BY <1>5
    <3>2. ASSUME NEW k \in 1..N, writes[k].fid = g, field_count(x, g) = writes[k].idx + 1
          PROVE  g \in ResultFields(tid, t) /\ field_count(x, g) <= Len(t.rows)
      BY <2>2, <3>2
    <3> QED BY <3>1, <3>2
  <2>4. ASSUME g \in ResultFields(tid, t), Len(t.rows) > 0
        PROVE  field_count(x, g) >= Len(t.rows)
    <3>1. PICK col \in 1..Width(tid, t) : ftdc_path(Results(tid)[col]).fid = g
      BY <2>4 DEF ResultFields
    <3>2. Len(t.rows) - 1 \in 0..Len(t.rows) - 1
      BY <2>4, <1>3
    <3>3. PICK n \in 1..N : writes[n] = RowWrite(tid, t, Len(t.rows) - 1, col)
      BY <3>2, <1>4
    <3>4. writes[n].fid = g /\ writes[n].idx = Len(t.rows) - 1
      BY <3>1, <3>3 DEF RowWrite
    <3> QED BY <3>4, <1>3, <1>5, <2>1
  <2>5. field_count(x, g) >= field_count(r.var, g)
    BY <1>5
  <2> HIDE DEF g
  <2>6. field_count(x, g) = LET rows == IF g \in ResultFields(tid, t) THEN Len(t.rows) ELSE 0
                            IN  IF rows > field_count(r.var, g) THEN rows ELSE field_count(r.var, g)
    <3>1. CASE g \in ResultFields(tid, t) /\ Len(t.rows) > 0
      BY <3>1, <1>3, <2>1, <2>3, <2>4, <2>5
    <3>2. CASE g \in ResultFields(tid, t) /\ Len(t.rows) = 0
      BY <3>2, <1>3, <2>1, <2>3, <2>5
    <3>3. CASE g \notin ResultFields(tid, t)
      BY <3>3, <2>1, <2>3
    <3> QED BY <3>1, <3>2, <3>3, <1>3
  <2> QED BY <2>6 DEF RowCount, g
<1>7. \A k \in 1..N : writes[k].value # NoValue
  <2> TAKE k \in 1..N
  <2>1. PICK row \in 0..Len(t.rows) - 1, col \in 1..Width(tid, t) : writes[k] = RowWrite(tid, t, row, col)
    BY <1>4
  <2> QED BY <2>1, RowGivesValue
<1>8. ASSUME NEW f \in Response[tid], NEW j \in 0..field_count(x, f.name) - 1, NEW i \in f.items
      PROVE  HasValue(x, f.name, j, i)
  <2>1. field_count(x, f.name) \in Nat /\ field_count(r.var, f.name) \in Nat /\ j \in Nat
    BY <1>1, <1>5, FieldCount
  <2>2. CASE j < field_count(r.var, f.name)
    <3>1. j \in 0..field_count(r.var, f.name) - 1
      BY <2>1, <2>2
    <3>2. HasItem(r.var, f.name, j, i) /\ get_field_item(r.var, f.name, j, i) # NoValue
      BY <3>1, HandlerAssumption DEF Servable
    <3>3. HasItem(x, f.name, j, i)
      BY <3>2, <2>1, <1>5
    <3>4. get_field_item(x, f.name, j, i) # NoValue
      BY <3>2, <3>3, <2>1, <1>5, <1>7
    <3> QED BY <3>3, <3>4 DEF HasValue
  <2>3. CASE j >= field_count(r.var, f.name)
    <3> DEFINE rows == IF f.name \in ResultFields(tid, t) THEN Len(t.rows) ELSE 0
    <3>1. rows > field_count(r.var, f.name) /\ j < rows
      BY <2>1, <2>3, <1>6, <1>3 DEF RowCount
    <3>2. rows = Len(t.rows)
      BY <3>1, <2>1
    <3>3. PICK col \in 1..Len(Results(tid)) :
             ftdc_path(Results(tid)[col]).fid = f.name /\ ftdc_path(Results(tid)[col]).item = i
      BY <3>1 DEF Suits
    <3> HIDE DEF rows
    <3>4. j \in 0..Len(t.rows) - 1 /\ col \in 1..Width(tid, t)
      BY <3>1, <3>2, <2>1, <1>3
    <3>5. PICK n \in 1..N : writes[n] = RowWrite(tid, t, j, col)
      BY <3>4, <1>4
    <3>6. Targets(writes[n], f.name, j, i)
      BY <3>3, <3>5 DEF Targets, RowWrite
    <3>7. HasItem(x, f.name, j, i)
      BY <3>6, <2>1, <1>5
    <3>8. get_field_item(x, f.name, j, i) # NoValue
      BY <3>6, <3>7, <2>1, <1>5, <1>7
    <3> QED BY <3>7, <3>8 DEF HasValue
  <2> QED BY <2>1, <2>2, <2>3
<1> QED BY <1>5, <1>6, <1>8 DEF Completed, x

\* The out values add no occurrence to it.
LEMMA OutsComplete ==
    ASSUME NEW r \in Requests, r.tid \in DOMAIN Functions, Servable(r),
           NEW t \in Tables, NEW o \in [1..Len(Outs(r.tid)) -> Values \cup {Null}], Suits(r, t, o),
           Len(o) = Len(Outs(r.tid)),
           NEW x, Completed(x, r, t)
    PROVE  Completed(StoreOuts(r.tid, o, x), r, t)
<1> DEFINE tid == r.tid
           N == Len(Outs(tid))
           writes == OutWrites(tid, o)
           y == StoreOuts(tid, o, x)
<1>1. IsVariable(x) /\ IsVariable(r.var) /\ N <= Len(Results(tid))
  BY HandlerAssumption DEF Completed, Servable
<1>2. SetBy(y, x, writes, N)
  BY <1>1, StoreOutsSets
<1>3. /\ Len(t.rows) \in Nat /\ Width(tid, t) \in Nat /\ Width(tid, t) = Len(Results(tid)) /\ N \in Nat
  BY TableFacts DEF Suits
<1>4. ASSUME NEW n \in 1..N
      PROVE  /\ writes[n].fid \in ResultFields(tid, t) /\ writes[n].idx \in Nat
             /\ writes[n].idx < Len(t.rows) \/ writes[n].idx < field_count(r.var, writes[n].fid)
             /\ writes[n].value # NoValue
  <2>1. n \in 1..Width(tid, t) /\ n \in 1..Len(Results(tid)) /\ n \in 1..Len(o)
    BY <1>1, <1>3
  <2>2. writes[n].fid = ftdc_path(Results(tid)[n]).fid /\ writes[n].idx = ftdc_path(Results(tid)[n]).idx
    BY DEF OutWrites, OutWrite
  <2>3. ftdc_path(Results(tid)[n]).idx \in Nat
    BY <2>1, HandlerAssumption DEF Results
  <2>4. writes[n].value # NoValue
    <3>1. ItemOf(Results(tid)[n]) \in Typed
      BY <2>1 DEF Servable
    <3>2. writes[n].value = o[n]
      BY <3>1 DEF OutWrites, OutWrite, ValueFrom, ItemOf
    <3>3. o[n] \in Values
      BY <2>1 DEF Suits
    <3> QED BY <3>2, <3>3, HandlerAssumption
  <2> QED BY <2>1, <2>2, <2>3, <2>4 DEF Suits, ResultFields
<1>5. /\ IsVariable(y)
      /\ \A g : \A j \in Nat : \A i :
            HasItem(y, g, j, i) <=>
               HasItem(x, g, j, i) \/ \E k \in 1..N : Targets(writes[k], g, j, i)
      /\ \A g : \A j \in Nat : \A i : HasItem(y, g, j, i) =>
            \/ \E k \in 1..N : Targets(writes[k], g, j, i) /\ get_field_item(y, g, j, i) = writes[k].value
            \/ /\ \A k \in 1..N : ~Targets(writes[k], g, j, i)
               /\ get_field_item(y, g, j, i) = get_field_item(x, g, j, i)
      /\ \A g : /\ field_count(y, g) >= field_count(x, g)
                /\ \/ field_count(y, g) = field_count(x, g)
                   \/ \E k \in 1..N : writes[k].fid = g /\ field_count(y, g) = writes[k].idx + 1
  BY <1>2 DEF SetBy
<1> HIDE DEF y, N, writes
<1>6. ASSUME NEW f \in Response[tid]
      PROVE  field_count(y, f.name) = RowCount(r, t, f) /\ field_count(y, f.name) = field_count(x, f.name)
  <2>1. /\ field_count(x, f.name) \in Nat /\ field_count(r.var, f.name) \in Nat
        /\ field_count(y, f.name) \in Nat
    BY <1>1, <1>5, FieldCount
  <2>2. field_count(x, f.name) = RowCount(r, t, f)
    BY DEF Completed
  <2>3. ASSUME NEW k \in 1..N, writes[k].fid = f.name PROVE writes[k].idx + 1 <= RowCount(r, t, f)
    BY <1>3, <1>4, <2>1, <2>3 DEF RowCount
  <2> QED BY <1>5, <2>1, <2>2, <2>3
<1>7. ASSUME NEW f \in Response[tid], NEW j \in 0..field_count(y, f.name) - 1, NEW i \in f.items
      PROVE  HasValue(y, f.name, j, i)
  <2>1. j \in 0..field_count(x, f.name) - 1 /\ j \in Nat
    <3>1. field_count(x, f.name) \in Nat
      BY <1>1, FieldCount
    <3> QED BY <3>1, <1>6
  <2>2. HasItem(x, f.name, j, i) /\ get_field_item(x, f.name, j, i) # NoValue
    BY <2>1 DEF Completed, HasValue
  <2>3. HasItem(y, f.name, j, i)
    BY <2>1, <2>2, <1>5
  <2>4. get_field_item(y, f.name, j, i) # NoValue
    BY <2>1, <2>2, <2>3, <1>4, <1>5
  <2> QED BY <2>3, <2>4 DEF HasValue
<1> QED BY <1>5, <1>6, <1>7 DEF Completed, y

-----------------------------------------------------------------------------
(* The invariant.                                                          *)

ConnType == [state : {"none", "open", "closed"}, waiting : [columns : Nat, rows : Seq(Columns)],
             more : Nat, outs : Columns]

GivenType == [res : Tables \cup {NoResult}, outs : Columns]

\* An empty result and the result sets are results.
LEMMA ResultType ==
    /\ NoResult \in [columns : Nat, rows : Seq(Columns)]
    /\ Tables \subseteq [columns : Nat, rows : Seq(Columns)]
    /\ <<>> \in Columns
<1>1. <<>> \in Seq(Columns) /\ <<>> \in Columns
  BY EmptySeq DEF Columns
<1>2. NoResult \in [columns : Nat, rows : Seq(Columns)]
  BY <1>1 DEF NoResult
<1>3. Tables \subseteq [columns : Nat, rows : Seq(Columns)]
  BY HandlerAssumption
<1> QED BY <1>1, <1>2, <1>3

\* Nothing has been asked yet.
LEMMA InitIInv == Init => IInv
<1> SUFFICES ASSUME Init PROVE IInv
  OBVIOUS
<1>1. Unconnected \in ConnType /\ NothingGiven \in GivenType
  BY ResultType DEF Unconnected, NothingGiven, ConnType, GivenType
<1>2. Unconnected.waiting = NoResult /\ Unconnected.state = "none" /\ Unconnected.more = 0
  BY DEF Unconnected
<1>3. TypeOK
  <2>1. conn \in [Workers -> ConnType] /\ given \in [Workers -> GivenType]
    BY <1>1 DEF Init
  <2>2. \A w \in Workers : conn[w].waiting = NoResult
    BY <1>2 DEF Init
  <2>3. /\ pc \in [Workers -> Steps \cup {"idle", "answered"}]
        /\ \A w \in Workers : pc[w] = "idle"
    BY DEF Init
  <2>4. executed \in [Workers -> Nat] /\ served \in [Workers -> 0..MaxRequests]
    <3>1. MaxRequests \in Nat
      BY HandlerAssumption
    <3> QED BY <3>1 DEF Init
  <2> QED BY <2>1, <2>2, <2>3, <2>4 DEF TypeOK, ConnType, GivenType, Init
<1>4. ASSUME NEW w \in Workers
      PROVE  WorkerOK(conn[w], pc[w], req[w], var[w], given[w], executed[w], fault)
  <2>1. conn[w] = Unconnected /\ pc[w] = "idle" /\ executed[w] = 0
    BY DEF Init
  <2> QED BY <2>1, <1>2 DEF WorkerOK, Counted, Kept, Unharmed, Steps
<1> QED BY <1>3, <1>4 DEF IInv, Init, OnlyUnreadKills

\* A step of w leaves the other threads as they are: what remains to be shown
\* is about w.
LEMMA WorkerStepIInv ==
    ASSUME IInv, NEW w \in Workers, TypeOK',
           \A v \in Workers \ {w} :
               /\ conn'[v] = conn[v] /\ pc'[v] = pc[v] /\ req'[v] = req[v]
               /\ var'[v] = var[v] /\ given'[v] = given[v] /\ executed'[v] = executed[v],
           fault => fault', dead' = {} \/ fault',
           WorkerOK(conn'[w], pc'[w], req'[w], var'[w], given'[w], executed'[w], fault')
    PROVE  IInv'
<1>1. ASSUME NEW v \in Workers
      PROVE  WorkerOK(conn'[v], pc'[v], req'[v], var'[v], given'[v], executed'[v], fault')
  <2>1. CASE v = w
    BY <2>1
  <2>2. CASE v # w
    <3>1. WorkerOK(conn[v], pc[v], req[v], var[v], given[v], executed[v], fault)
      BY DEF IInv
    <3> QED BY <3>1, <2>2 DEF WorkerOK
  <2> QED BY <2>1, <2>2
<1>2. OnlyUnreadKills'
  BY DEF OnlyUnreadKills
<1> QED BY <1>1, <1>2 DEF IInv

\* What the invariant says of one thread.
LEMMA OfWorker ==
    ASSUME IInv, NEW w \in Workers
    PROVE  /\ conn[w] \in ConnType /\ given[w] \in GivenType /\ executed[w] \in Nat
           /\ pc[w] # "idle" => req[w] \in Requests
           /\ WorkerOK(conn[w], pc[w], req[w], var[w], given[w], executed[w], fault)
BY DEF IInv, TypeOK, ConnType, GivenType

\* The process dies in a step that lacks something, which it does after a fault
\* or where the thread is starved.
LEMMA DieIInv ==
    ASSUME IInv, NEW w \in Workers, Die(w), fault \/ Starved(w)
    PROVE  IInv'
<1>1. /\ conn' = conn /\ pc' = pc /\ req' = req /\ var' = var /\ given' = given
      /\ executed' = executed /\ served' = served /\ fault' = fault /\ dead' = {w}
  BY DEF Die
<1>2. TypeOK'
  BY <1>1 DEF IInv, TypeOK
<1>3. \A v \in Workers :
         WorkerOK(conn'[v], pc'[v], req'[v], var'[v], given'[v], executed'[v], fault')
  BY <1>1 DEF IInv
<1>4. OnlyUnreadKills'
  BY <1>1 DEF OnlyUnreadKills, Starved
<1> QED BY <1>2, <1>3, <1>4 DEF IInv

\* A request that is taken up has run nothing, on a connection that is as the last one left it.
LEMMA BeginIInv ==
    ASSUME IInv, NEW w \in Workers, Begin(w)
    PROVE  IInv'
<1>1. PICK r \in Requests :
         /\ req' = [req EXCEPT ![w] = r] /\ var' = [var EXCEPT ![w] = r.var]
         /\ fault' = (fault \/ ~Servable(r))
  BY DEF Begin
<1>2. /\ given' = [given EXCEPT ![w] = NothingGiven] /\ executed' = [executed EXCEPT ![w] = 0]
      /\ served' = [served EXCEPT ![w] = @ + 1] /\ pc' = [pc EXCEPT ![w] = "connect"]
      /\ conn' = conn /\ dead' = dead /\ dead = {} /\ pc[w] \in {"idle", "answered"} /\ served[w] < MaxRequests
  BY DEF Begin, Idle, Goto
<1>3. TypeOK'
  <2>1. given' \in [Workers -> GivenType] /\ executed' \in [Workers -> Nat]
    BY <1>2, ResultType DEF IInv, TypeOK, GivenType, NothingGiven
  <2>2. served' \in [Workers -> 0..MaxRequests]
    <3>0. MaxRequests \in Nat /\ served \in [Workers -> 0..MaxRequests]
      BY HandlerAssumption DEF IInv, TypeOK
    <3>1. served \in [Workers -> 0..MaxRequests] /\ served[w] + 1 \in 0..MaxRequests
      BY <3>0, <1>2
    <3> QED BY <3>1, <1>2
  <2>3. pc' \in [Workers -> Steps \cup {"idle", "answered"}]
    BY <1>2 DEF IInv, TypeOK, Steps
  <2>4. /\ DOMAIN req' = Workers /\ DOMAIN var' = Workers
        /\ \A v \in Workers : pc'[v] # "idle" => req'[v] \in Requests
    BY <1>1, <1>2 DEF IInv, TypeOK
  <2>5. fault' \in BOOLEAN /\ dead' \subseteq Workers
    BY <1>1, <1>2 DEF IInv, TypeOK
  <2> QED BY <2>1, <2>2, <2>3, <2>4, <2>5, <1>2 DEF IInv, TypeOK, GivenType
<1>4. ASSUME NEW v \in Workers \ {w}
      PROVE  /\ conn'[v] = conn[v] /\ pc'[v] = pc[v] /\ req'[v] = req[v]
             /\ var'[v] = var[v] /\ given'[v] = given[v] /\ executed'[v] = executed[v]
  BY <1>1, <1>2 DEF IInv, TypeOK
<1>5. /\ conn'[w] = conn[w] /\ pc'[w] = "connect" /\ req'[w] = r /\ var'[w] = r.var
      /\ given'[w] = NothingGiven /\ executed'[w] = 0
  BY <1>1, <1>2 DEF IInv, TypeOK
<1>6. WorkerOK(conn'[w], pc'[w], req'[w], var'[w], given'[w], executed'[w], fault')
  <2>1. WorkerOK(conn[w], pc[w], req[w], var[w], given[w], executed[w], fault)
    BY OfWorker
  <2>2. Counted(conn'[w], pc'[w], req'[w], given'[w], executed'[w])
    BY <2>1, <1>2, <1>5 DEF WorkerOK, Counted
  <2>3. Kept(pc'[w], req'[w], var'[w], given'[w])
    BY <1>5 DEF Kept
  <2>4. fault' \/ Unharmed(conn'[w], pc'[w], req'[w], var'[w], given'[w], executed'[w])
    BY <2>1, <1>1, <1>2, <1>5 DEF WorkerOK, Unharmed, Steps
  <2> QED BY <2>2, <2>3, <2>4 DEF WorkerOK
<1>7. (fault => fault') /\ (dead' = {} \/ fault')
  BY <1>1, <1>2
<1> QED BY <1>3, <1>4, <1>6, <1>7, WorkerStepIInv

\* A request that cannot be parsed ends the process.
LEMMA BadRequestIInv ==
    ASSUME IInv, NEW w \in Workers, BadRequest(w)
    PROVE  IInv'
BY DEF BadRequest, IInv, TypeOK, WorkerOK, OnlyUnreadKills

\* What is lost with a connection is a fault; a CALL that ran has still run once.
LEMMA ConnectionLostIInv ==
    ASSUME IInv, NEW w \in Workers, ConnectionLost(w)
    PROVE  IInv'
<1>1. /\ conn' = [conn EXCEPT ![w].state = "closed", ![w].waiting = NoResult, ![w].more = 0]
      /\ fault' = TRUE /\ pc' = pc /\ req' = req /\ var' = var /\ given' = given
      /\ executed' = executed /\ served' = served /\ dead' = dead
  BY DEF ConnectionLost
<1>2. conn \in [Workers -> ConnType]
  BY DEF IInv, TypeOK, ConnType
<1>3. /\ conn' \in [Workers -> ConnType] /\ conn'[w].waiting = NoResult
      /\ \A v \in Workers \ {w} : conn'[v] = conn[v]
  BY <1>1, <1>2, ResultType DEF ConnType
<1>4. TypeOK'
  BY <1>1, <1>3 DEF IInv, TypeOK, ConnType
<1>5. WorkerOK(conn'[w], pc'[w], req'[w], var'[w], given'[w], executed'[w], fault')
  <2>1. WorkerOK(conn[w], pc[w], req[w], var[w], given[w], executed[w], fault)
    BY OfWorker
  <2>2. Counted(conn'[w], pc'[w], req'[w], given'[w], executed'[w])
    BY <2>1, <1>1, <1>3 DEF WorkerOK, Counted
  <2> QED BY <2>1, <2>2, <1>1 DEF WorkerOK
<1> QED BY <1>1, <1>3, <1>4, <1>5, WorkerStepIInv

\* Only the connection is new.
LEMMA ConnectIInv ==
    ASSUME IInv, NEW w \in Workers, Connect(w)
    PROVE  IInv'
<1>1. /\ pc[w] = "connect" /\ dead = {} /\ pc' = [pc EXCEPT ![w] = "call"]
      /\ req' = req /\ var' = var /\ given' = given /\ executed' = executed /\ served' = served
  BY DEF Connect, At, Goto
<1>2. \/ conn[w].state # "none" /\ conn' = conn /\ fault' = fault /\ dead' = dead
      \/ conn[w].state = "none" /\ conn' = [conn EXCEPT ![w].state = "open"] /\ fault' = fault /\ dead' = dead
      \/ /\ conn[w].state = "none" /\ conn' = [conn EXCEPT ![w].state = "closed"]
         /\ fault' = TRUE /\ dead' \in {{}, {w}}
  BY DEF Connect, Handle
<1>3. conn \in [Workers -> ConnType]
  BY DEF IInv, TypeOK, ConnType
<1>4. WorkerOK(conn[w], pc[w], req[w], var[w], given[w], executed[w], fault)
  BY OfWorker
<1>5. /\ conn' \in [Workers -> ConnType] /\ conn'[w].waiting = conn[w].waiting
      /\ conn'[w].more = conn[w].more
      /\ \A v \in Workers \ {w} : conn'[v] = conn[v]
      /\ ~fault' => (conn[w].state # "closed" => conn'[w].state = "open")
  <2>1. CASE conn[w].state # "none" /\ conn' = conn
    BY <2>1, <1>3 DEF ConnType
  <2>2. CASE conn[w].state = "none" /\ conn' = [conn EXCEPT ![w].state = "open"]
    BY <2>2, <1>3 DEF ConnType
  <2>3. CASE conn[w].state = "none" /\ conn' = [conn EXCEPT ![w].state = "closed"] /\ fault' = TRUE
    BY <2>3, <1>3 DEF ConnType
  <2> QED BY <2>1, <2>2, <2>3, <1>2
<1>6. conn[w].waiting = NoResult
  BY <1>1, <1>4 DEF WorkerOK, Counted
<1>7. fault' \in BOOLEAN /\ dead' \subseteq Workers /\ (fault => fault') /\ (dead' = {} \/ fault')
  <2>1. CASE fault' = fault /\ dead' = dead
    BY <2>1, <1>1 DEF IInv, TypeOK
  <2>2. CASE fault' = TRUE /\ dead' \in {{}, {w}}
    BY <2>2
  <2> QED BY <2>1, <2>2, <1>2
<1>8. TypeOK'
  <2>1. \A v \in Workers : conn'[v].state # "open" => conn'[v].waiting = NoResult
    BY <1>5, <1>6 DEF IInv, TypeOK
  <2>2. /\ pc' \in [Workers -> Steps \cup {"idle", "answered"}]
        /\ \A v \in Workers : pc'[v] # "idle" => pc[v] # "idle"
    BY <1>1 DEF IInv, TypeOK, Steps
  <2> QED BY <2>1, <2>2, <1>1, <1>5, <1>7 DEF IInv, TypeOK, ConnType
<1>9. pc'[w] = "call" /\ \A v \in Workers \ {w} : pc'[v] = pc[v]
  BY <1>1 DEF IInv, TypeOK
<1>10. WorkerOK(conn'[w], pc'[w], req'[w], var'[w], given'[w], executed'[w], fault')
  <2>1. Counted(conn'[w], pc'[w], req'[w], given'[w], executed'[w])
    BY <1>1, <1>4, <1>5, <1>9 DEF WorkerOK, Counted
  <2>2. Kept(pc'[w], req'[w], var'[w], given'[w])
    BY <1>1, <1>4, <1>9 DEF WorkerOK, Kept
  <2>3. fault' \/ Unharmed(conn'[w], pc'[w], req'[w], var'[w], given'[w], executed'[w])
    BY <1>1, <1>4, <1>5, <1>7, <1>9 DEF WorkerOK, Unharmed, Steps
  <2> QED BY <2>1, <2>2, <2>3 DEF WorkerOK
<1> QED BY <1>1, <1>5, <1>7, <1>8, <1>9, <1>10, WorkerStepIInv

\* The procedure gives a result set.
LEMMA CallGivesIInv ==
    ASSUME IInv, NEW w \in Workers, dead = {}, pc[w] = "call", Callable(req[w].tid, req[w].var),
           Ready(conn[w]),
           NEW t \in Tables, NEW m \in StatusResults,
           NEW o \in [1..Len(Outs(req[w].tid)) -> Values \cup {Null}],
           conn' = [conn EXCEPT ![w].waiting = t, ![w].more = m, ![w].outs = o],
           given' = [given EXCEPT ![w] = [res |-> t, outs |-> o]],
           executed' = [executed EXCEPT ![w] = @ + 1],
           fault' = (fault \/ ~Suits(req[w], t, o)),
           pc' = [pc EXCEPT ![w] = "store"],
           UNCHANGED <<req, var, served, dead>>
    PROVE  IInv'
<1>0. UNCHANGED req /\ UNCHANGED var /\ UNCHANGED served /\ UNCHANGED dead
  OBVIOUS
<1>b. fault' <=> fault \/ ~Suits(req[w], t, o)
  OBVIOUS
<1>1. WorkerOK(conn[w], pc[w], req[w], var[w], given[w], executed[w], fault)
  BY OfWorker
<1>2. o \in Columns /\ m \in Nat
  <2>1. req[w].tid \in DOMAIN Functions
    BY DEF Callable
  <2>2. Len(Outs(req[w].tid)) \in Nat
    BY <2>1, TableFacts
  <2> QED BY <2>2, FunctionIsSequence, HandlerAssumption DEF Columns
<1>3. /\ conn \in [Workers -> ConnType] /\ executed \in [Workers -> Nat] /\ given \in [Workers -> GivenType]
      /\ pc \in [Workers -> Steps \cup {"idle", "answered"}]
  BY DEF IInv, TypeOK, ConnType, GivenType
<1>4. t \in [columns : Nat, rows : Seq(Columns)]
  BY ResultType
<1>5. /\ conn' \in [Workers -> ConnType] /\ \A v \in Workers \ {w} : conn'[v] = conn[v]
      /\ conn'[w].waiting = t /\ conn'[w].more = m /\ conn'[w].outs = o /\ conn'[w].state = conn[w].state
  BY <1>2, <1>3, <1>4 DEF ConnType
<1>6. /\ given' \in [Workers -> GivenType] /\ \A v \in Workers \ {w} : given'[v] = given[v]
      /\ given'[w].res = t /\ given'[w].outs = o
  BY <1>2, <1>3 DEF GivenType
<1>7. /\ executed' \in [Workers -> Nat] /\ \A v \in Workers \ {w} : executed'[v] = executed[v]
      /\ executed'[w] = executed[w] + 1
  BY <1>3
<1>8. /\ pc' \in [Workers -> Steps \cup {"idle", "answered"}] /\ pc'[w] = "store"
      /\ \A v \in Workers \ {w} : pc'[v] = pc[v]
  BY <1>3 DEF Steps
<1>9. conn[w].state = "open"
  BY DEF Ready
<1>10. TypeOK'
  <2>1. \A v \in Workers : conn'[v].state # "open" => conn'[v].waiting = NoResult
    BY <1>5, <1>9 DEF IInv, TypeOK
  <2>2. \A v \in Workers : pc'[v] # "idle" => pc[v] # "idle"
    BY <1>8
  <2> QED BY <2>1, <2>2, <1>0, <1>5, <1>6, <1>7, <1>8 DEF IInv, TypeOK, ConnType, GivenType
<1>11. WorkerOK(conn'[w], pc'[w], req'[w], var'[w], given'[w], executed'[w], fault')
  <2>1. executed[w] = 0
    BY <1>1 DEF WorkerOK, Counted
  <2>2. Counted(conn'[w], pc'[w], req'[w], given'[w], executed'[w])
    BY <2>1, <1>0, <1>5, <1>6, <1>7, <1>8 DEF Counted
  <2>3. Kept(pc'[w], req'[w], var'[w], given'[w])
    BY <1>0, <1>1, <1>8 DEF WorkerOK, Kept
  <2>4. ASSUME ~fault' PROVE Unharmed(conn'[w], pc'[w], req'[w], var'[w], given'[w], executed'[w])
    <3>1. ~fault /\ Suits(req[w], t, o)
      BY <2>4, <1>2, <1>b
    <3>2. Servable(req[w])
      BY <3>1, <1>1 DEF WorkerOK, Unharmed, Steps
    <3> QED BY <3>1, <3>2, <1>0, <1>5, <1>6, <1>8, <1>9 DEF Unharmed, Suited
  <2> QED BY <2>2, <2>3, <2>4 DEF WorkerOK
<1>12. (fault => fault') /\ (dead' = {} \/ fault')
  BY <1>0, <1>b
<1> QED BY <1>0, <1>5, <1>6, <1>7, <1>8, <1>10, <1>11, <1>12, WorkerStepIInv

\* The procedure gives nothing, is not run, or was not reached: results of the
\* query before wait to be read.
LEMMA CallFailsIInv ==
    ASSUME IInv, NEW w \in Workers, dead = {}, pc[w] = "call", Callable(req[w].tid, req[w].var),
           \/ fault' /\ (executed' = [executed EXCEPT ![w] = @ + 1] \/ executed' = executed)
           \/ fault' = fault /\ executed' = executed /\ (fault \/ conn[w].more > 0),
           fault' \in BOOLEAN,
           pc' = [pc EXCEPT ![w] = "store"],
           conn' = conn, given' = given,
           UNCHANGED <<req, var, served, dead>>
    PROVE  IInv'
<1>0. UNCHANGED req /\ UNCHANGED var /\ UNCHANGED served /\ UNCHANGED dead
  OBVIOUS
<1>1. WorkerOK(conn[w], pc[w], req[w], var[w], given[w], executed[w], fault)
  BY OfWorker
<1>2. executed[w] = 0 /\ conn[w].waiting = NoResult
  BY <1>1 DEF WorkerOK, Counted
<1>3. executed \in [Workers -> Nat] /\ pc \in [Workers -> Steps \cup {"idle", "answered"}]
  BY DEF IInv, TypeOK
<1>4. /\ executed' \in [Workers -> Nat] /\ executed'[w] <= 1
      /\ \A v \in Workers \ {w} : executed'[v] = executed[v]
  BY <1>2, <1>3
<1>5. /\ pc' \in [Workers -> Steps \cup {"idle", "answered"}] /\ pc'[w] = "store"
      /\ \A v \in Workers \ {w} : pc'[v] = pc[v]
  BY <1>3 DEF Steps
<1>6. TypeOK'
  <2>1. \A v \in Workers : pc'[v] # "idle" => pc[v] # "idle"
    BY <1>5
  <2> QED BY <2>1, <1>0, <1>4, <1>5 DEF IInv, TypeOK
<1>7. WorkerOK(conn'[w], pc'[w], req'[w], var'[w], given'[w], executed'[w], fault')
  <2>1. Counted(conn'[w], pc'[w], req'[w], given'[w], executed'[w])
    BY <1>0, <1>2, <1>4, <1>5 DEF Counted
  <2>2. Kept(pc'[w], req'[w], var'[w], given'[w])
    BY <1>0, <1>1, <1>5 DEF WorkerOK, Kept
  <2>3. ASSUME ~fault' PROVE Unharmed(conn'[w], pc'[w], req'[w], var'[w], given'[w], executed'[w])
    <3>1. ~fault /\ executed' = executed /\ conn[w].more > 0
      BY <2>3
    <3>2. Unharmed(conn[w], pc[w], req[w], var[w], given[w], executed[w])
      BY <3>1, <1>1 DEF WorkerOK
    <3> QED BY <3>1, <3>2, <1>0, <1>2, <1>5 DEF Unharmed, Steps
  <2> QED BY <2>1, <2>2, <2>3 DEF WorkerOK
<1>8. (fault => fault') /\ (dead' = {} \/ fault')
  BY <1>0
<1> QED BY <1>0, <1>4, <1>5, <1>6, <1>7, <1>8, WorkerStepIInv

\* The CALL runs once or the process ends, and its result waits in this connection.
LEMMA CallIInv ==
    ASSUME IInv, NEW w \in Workers, Call(w)
    PROVE  IInv'
<1>1. pc[w] = "call" /\ dead = {}
  BY DEF Call, At
<1>2. WorkerOK(conn[w], pc[w], req[w], var[w], given[w], executed[w], fault)
  BY OfWorker
<1>3. ~fault => Callable(req[w].tid, req[w].var) /\ (Ready(conn[w]) \/ conn[w].more > 0)
  <2>1. conn[w].more \in Nat
    BY OfWorker DEF ConnType
  <2> QED BY <2>1, <1>1, <1>2 DEF WorkerOK, Counted, Unharmed, Servable, Ready, Steps
<1>4. CASE ~Callable(req[w].tid, req[w].var) /\ Die(w)
  BY <1>3, <1>4, DieIInv DEF IInv, TypeOK
<1>5. CASE ~(~Callable(req[w].tid, req[w].var) /\ Die(w))
  <2>1. /\ Callable(req[w].tid, req[w].var)
        /\ \/ Ready(conn[w]) /\ Executes(w)
           \/ ~Ready(conn[w]) /\ UNCHANGED <<conn, given, executed, fault>>
        /\ pc' = [pc EXCEPT ![w] = "store"] /\ UNCHANGED <<req, var, served, dead>>
    BY <1>5 DEF Call, Handle, Goto
  <2>2. CASE Ready(conn[w]) /\ Executes(w)
    <3>1. CASE \E t \in Tables, m \in StatusResults, o \in [1..Len(Outs(req[w].tid)) -> Values \cup {Null}] :
                  /\ conn' = [conn EXCEPT ![w].waiting = t, ![w].more = m, ![w].outs = o]
                  /\ given' = [given EXCEPT ![w] = [res |-> t, outs |-> o]]
                  /\ executed' = [executed EXCEPT ![w] = @ + 1]
                  /\ fault' = (fault \/ ~Suits(req[w], t, o))
      <4>1. PICK t \in Tables, m \in StatusResults, o \in [1..Len(Outs(req[w].tid)) -> Values \cup {Null}] :
                  /\ conn' = [conn EXCEPT ![w].waiting = t, ![w].more = m, ![w].outs = o]
                  /\ given' = [given EXCEPT ![w] = [res |-> t, outs |-> o]]
                  /\ executed' = [executed EXCEPT ![w] = @ + 1]
                  /\ fault' = (fault \/ ~Suits(req[w], t, o))
        BY <3>1
      <4> QED BY <4>1, <1>1, <2>1, <2>2, CallGivesIInv
    <3>2. CASE /\ executed' = [executed EXCEPT ![w] = @ + 1] \/ executed' = executed
               /\ fault' = TRUE /\ conn' = conn /\ given' = given
      BY <3>2, <1>1, <2>1, CallFailsIInv
    <3> QED BY <3>1, <3>2, <2>2 DEF Executes, Handle
  <2>3. CASE ~Ready(conn[w]) /\ UNCHANGED <<conn, given, executed, fault>>
    <3>1. /\ fault' = fault /\ fault \in BOOLEAN /\ conn' = conn /\ given' = given /\ executed' = executed
          /\ fault \/ conn[w].more > 0
      BY <2>3, <1>3 DEF IInv, TypeOK
    <3> QED BY <3>1, <1>1, <2>1, CallFailsIInv
  <2> QED BY <2>1, <2>2, <2>3
<1> QED BY <1>4, <1>5

\* store_result empties the connection's result.
LEMMA TakenFacts ==
    ASSUME IInv, NEW w \in Workers, Taken(w)
    PROVE  /\ conn' \in [Workers -> ConnType] /\ \A v \in Workers \ {w} : conn'[v] = conn[v]
           /\ conn'[w].waiting = NoResult /\ conn'[w].more = conn[w].more
           /\ conn'[w].outs = conn[w].outs /\ conn'[w].state = conn[w].state
           /\ \A v \in Workers : conn'[v].state # "open" => conn'[v].waiting = NoResult
<1>1. conn' = [conn EXCEPT ![w].waiting = NoResult]
  BY DEF Taken, Handle
<1>2. conn \in [Workers -> ConnType] /\ \A v \in Workers : conn[v].state # "open" => conn[v].waiting = NoResult
  BY DEF IInv, TypeOK, ConnType
<1> QED BY <1>1, <1>2, ResultType DEF ConnType

\* The rows that wait are those of the thread's own call; without a fault they
\* can be stored.
LEMMA StoreIInv ==
    ASSUME IInv, NEW w \in Workers, Store(w)
    PROVE  IInv'
<1> DEFINE t == conn[w].waiting
           tid == req[w].tid
           good == /\ t # NoResult
                   /\ \A n \in 1..Len(t.rows) : \A c \in 1..Width(tid, t) :
                         Readable(ItemOf(Results(tid)[c]), t.rows[n][c])
<1>1. pc[w] = "store" /\ dead = {}
  BY DEF Store, At
<1>2. \/ ~good /\ Die(w)
      \/ /\ good /\ var' = [var EXCEPT ![w] = StoreRows(tid, t, @)] /\ Taken(w)
         /\ pc' = [pc EXCEPT ![w] = IF Outs(tid) = <<>> THEN "serialize" ELSE "select"]
         /\ UNCHANGED <<req, given, executed, served, fault, dead>>
  BY DEF Store, Handle, Goto
<1>3. WorkerOK(conn[w], pc[w], req[w], var[w], given[w], executed[w], fault)
  BY OfWorker
<1>4. /\ req[w] \in Requests /\ tid \in DOMAIN Functions /\ given[w] \in GivenType
      /\ Callable(req[w].tid, req[w].var)
  BY <1>1, <1>3, OfWorker DEF WorkerOK, Counted, Callable
<1>5. ~fault => good \/ Starved(w)
  <2> SUFFICES ASSUME ~fault, ~Starved(w) PROVE good
    OBVIOUS
  <2>1. t \in Tables /\ Suits(req[w], t, given[w].outs) /\ Servable(req[w])
    BY <1>1, <1>3 DEF WorkerOK, Unharmed, Steps, Suited, Starved
  <2> HIDE DEF t
  <2>2. t # NoResult /\ Width(tid, t) \in Nat /\ Width(tid, t) <= t.columns
        /\ Width(tid, t) <= Len(Results(tid)) /\ t.columns \in Nat /\ Len(Results(tid)) \in Nat
    BY <2>1, <1>4, TableFacts
  <2>3. \A c \in 1..Width(tid, t) : c \in 1..t.columns /\ c \in 1..Len(Results(tid))
    BY <2>2
  <2> QED BY <2>1, <2>2, <2>3, HandlerAssumption DEF Suits, Servable, Readable
<1>6. CASE ~good /\ Die(w)
  BY <1>5, <1>6, DieIInv DEF IInv, TypeOK
<1>7. CASE ~(~good /\ Die(w))
  <2> DEFINE next == IF Outs(tid) = <<>> THEN "serialize" ELSE "select"
  <2>1. /\ good /\ var' = [var EXCEPT ![w] = StoreRows(tid, t, @)] /\ Taken(w)
        /\ pc' = [pc EXCEPT ![w] = next]
        /\ req' = req /\ given' = given /\ executed' = executed /\ served' = served
        /\ fault' = fault /\ dead' = dead
    BY <1>2, <1>7
  <2>2. executed[w] = 1 /\ t = given[w].res /\ t \in Tables /\ var[w] = req[w].var
    <3>1. t # NoResult
      BY <2>1
    <3> QED BY <3>1, <1>1, <1>3, <1>4 DEF WorkerOK, Counted, Kept, GivenType
  <2>3. /\ conn' \in [Workers -> ConnType] /\ \A v \in Workers \ {w} : conn'[v] = conn[v]
        /\ conn'[w].waiting = NoResult /\ conn'[w].more = conn[w].more
        /\ conn'[w].outs = conn[w].outs /\ conn'[w].state = conn[w].state
        /\ \A v \in Workers : conn'[v].state # "open" => conn'[v].waiting = NoResult
    BY <2>1, TakenFacts
  <2> HIDE DEF t, good, next
  <2>4. /\ DOMAIN var' = Workers /\ \A v \in Workers \ {w} : var'[v] = var[v]
        /\ var'[w] = StoreRows(tid, given[w].res, req[w].var)
    BY <2>1, <2>2 DEF IInv, TypeOK
  <2>5. next \in {"serialize", "select"} /\ (next = "serialize" <=> Outs(tid) = <<>>)
    BY DEF next
  <2>6. /\ pc' \in [Workers -> Steps \cup {"idle", "answered"}] /\ pc'[w] = next
        /\ \A v \in Workers \ {w} : pc'[v] = pc[v]
    BY <2>1, <2>5 DEF IInv, TypeOK, Steps
  <2>7. TypeOK'
    <3>1. \A v \in Workers : pc'[v] # "idle" => req[v] \in Requests
      BY <2>6, <1>4 DEF IInv, TypeOK
    <3> QED BY <3>1, <2>1, <2>3, <2>4, <2>6 DEF IInv, TypeOK, ConnType
  <2>8. WorkerOK(conn'[w], pc'[w], req'[w], var'[w], given'[w], executed'[w], fault')
    <3>1. Counted(conn'[w], pc'[w], req'[w], given'[w], executed'[w])
      BY <2>1, <2>2, <2>3, <2>5, <2>6, <1>4 DEF Counted
    <3>2. Kept(pc'[w], req'[w], var'[w], given'[w])
      BY <2>1, <2>2, <2>4, <2>5, <2>6 DEF Kept
    <3>3. ASSUME ~fault PROVE Unharmed(conn'[w], pc'[w], req'[w], var'[w], given'[w], executed'[w])
      <4>1. /\ conn[w].state = "open" /\ Servable(req[w])
            /\ Suited(conn[w], req[w], given[w]) /\ Suits(req[w], given[w].res, given[w].outs)
        BY <3>3, <1>1, <1>3, <2>2 DEF WorkerOK, Unharmed, Steps, Counted, Suited
      <4>2. Serializable(tid, var'[w])
        BY <4>1, <2>2, <2>4, <1>4, RowsComplete, CompletedSerializable
      <4> QED BY <4>1, <4>2, <2>1, <2>2, <2>3, <2>5, <2>6 DEF Unharmed, Suited
    <3> QED BY <3>1, <3>2, <3>3, <2>1 DEF WorkerOK
  <2>9. (fault => fault') /\ (dead' = {} \/ fault')
    BY <2>1, <1>1
  <2> QED BY <2>1, <2>3, <2>4, <2>6, <2>7, <2>8, <2>9, WorkerStepIInv
<1> QED BY <1>6, <1>7

\* The query for the out values finds them as the CALL set them.
LEMMA SelectIInv ==
    ASSUME IInv, NEW w \in Workers, Select(w)
    PROVE  IInv'
<1> DEFINE row == [columns |-> Len(conn[w].outs), rows |-> <<conn[w].outs>>]
<1>1. /\ pc[w] = "select" /\ dead = {} /\ pc' = [pc EXCEPT ![w] = "fetch"]
      /\ req' = req /\ var' = var /\ given' = given /\ executed' = executed /\ served' = served
      /\ fault' = fault /\ dead' = dead
      /\ conn' = IF Ready(conn[w]) THEN [conn EXCEPT ![w].waiting = row] ELSE conn
  BY DEF Select, At, Goto, Handle
<1>2. WorkerOK(conn[w], pc[w], req[w], var[w], given[w], executed[w], fault)
  BY OfWorker
<1>3. conn \in [Workers -> ConnType] /\ \A v \in Workers : conn[v].state # "open" => conn[v].waiting = NoResult
  BY DEF IInv, TypeOK, ConnType
<1>4. row \in [columns : Nat, rows : Seq(Columns)]
  <2>1. conn[w].outs \in Columns
    BY <1>3 DEF ConnType
  <2>2. Len(conn[w].outs) \in Nat
    BY <2>1, LenProperties DEF Columns
  <2>3. <<conn[w].outs>> \in Seq(Columns)
    BY <2>1
  <2> QED BY <2>2, <2>3
<1> HIDE DEF row
<1>5. /\ conn' \in [Workers -> ConnType] /\ \A v \in Workers \ {w} : conn'[v] = conn[v]
      /\ conn'[w].more = conn[w].more /\ conn'[w].outs = conn[w].outs /\ conn'[w].state = conn[w].state
      /\ \A v \in Workers : conn'[v].state # "open" => conn'[v].waiting = NoResult
      /\ Ready(conn[w]) => conn'[w].waiting = row
  <2>1. CASE Ready(conn[w])
    <3>1. conn' = [conn EXCEPT ![w].waiting = row] /\ conn[w].state = "open"
      BY <2>1, <1>1 DEF Ready
    <3> QED BY <3>1, <1>3, <1>4 DEF ConnType
  <2>2. CASE ~Ready(conn[w])
    BY <2>2, <1>1, <1>3
  <2> QED BY <2>1, <2>2
<1>6. /\ pc' \in [Workers -> Steps \cup {"idle", "answered"}] /\ pc'[w] = "fetch"
      /\ \A v \in Workers \ {w} : pc'[v] = pc[v]
  BY <1>1 DEF IInv, TypeOK, Steps
<1>7. TypeOK'
  <2>1. \A v \in Workers : pc'[v] # "idle" => pc[v] # "idle"
    BY <1>1, <1>6
  <2> QED BY <2>1, <1>1, <1>5, <1>6 DEF IInv, TypeOK, ConnType
<1>8. WorkerOK(conn'[w], pc'[w], req'[w], var'[w], given'[w], executed'[w], fault')
  <2>1. Counted(conn'[w], pc'[w], req'[w], given'[w], executed'[w])
    BY <1>1, <1>2, <1>6 DEF WorkerOK, Counted
  <2>2. Kept(pc'[w], req'[w], var'[w], given'[w])
    BY <1>1, <1>2, <1>6 DEF WorkerOK, Kept
  <2>3. ASSUME ~fault PROVE Unharmed(conn'[w], pc'[w], req'[w], var'[w], given'[w], executed'[w])
    <3>0. conn[w].more \in Nat
      BY <1>3 DEF ConnType
    <3>1. conn[w].outs = given[w].outs /\ (Ready(conn[w]) \/ conn[w].more > 0)
      BY <3>0, <2>3, <1>1, <1>2 DEF WorkerOK, Counted, Unharmed, Suited, Ready, Steps
    <3>2. \/ conn'[w].waiting = NoResult /\ conn'[w].more > 0
          \/ conn'[w].waiting = [columns |-> Len(given[w].outs), rows |-> <<given[w].outs>>]
      <4>1. CASE Ready(conn[w])
        BY <4>1, <3>1, <1>5 DEF row
      <4>2. CASE ~Ready(conn[w])
        BY <4>2, <3>1, <1>1, <1>2 DEF WorkerOK, Counted
      <4> QED BY <4>1, <4>2
    <3>3. Unharmed(conn[w], pc[w], req[w], var[w], given[w], executed[w])
      BY <2>3, <1>2 DEF WorkerOK
    <3> QED BY <3>2, <3>3, <1>1, <1>5, <1>6 DEF Unharmed, Steps, Suited
  <2> QED BY <2>1, <2>2, <2>3, <1>1 DEF WorkerOK
<1>9. (fault => fault') /\ (dead' = {} \/ fault')
  BY <1>1
<1> QED BY <1>1, <1>5, <1>6, <1>7, <1>8, <1>9, WorkerStepIInv

\* The thread's own out values wait; without a fault they can be stored.
LEMMA FetchIInv ==
    ASSUME IInv, NEW w \in Workers, Fetch(w)
    PROVE  IInv'
<1> DEFINE t == conn[w].waiting
           tid == req[w].tid
           good == /\ t # NoResult /\ t.columns >= Len(Outs(tid))
                   /\ Len(Outs(tid)) <= Len(Results(tid))
                   /\ \A n \in 1..Len(Outs(tid)) : Readable(ItemOf(Results(tid)[n]), t.rows[1][n])
<1>1. pc[w] = "fetch" /\ dead = {}
  BY DEF Fetch, At
<1>2. \/ ~good /\ Die(w)
      \/ /\ good /\ var' = [var EXCEPT ![w] = StoreOuts(tid, t.rows[1], @)] /\ Taken(w)
         /\ pc' = [pc EXCEPT ![w] = "serialize"]
         /\ UNCHANGED <<req, given, executed, served, fault, dead>>
  BY DEF Fetch, Handle, Goto
<1>3. WorkerOK(conn[w], pc[w], req[w], var[w], given[w], executed[w], fault)
  BY OfWorker
<1>4. /\ req[w] \in Requests /\ tid \in DOMAIN Functions /\ executed[w] = 1
      /\ Callable(req[w].tid, req[w].var)
  BY <1>1, <1>3, OfWorker DEF WorkerOK, Counted, Callable
<1>5. ASSUME ~fault
      PROVE  /\ Servable(req[w]) /\ given[w].res \in Tables /\ Suits(req[w], given[w].res, given[w].outs)
             /\ (t = NoResult /\ Starved(w)) \/ t = [columns |-> Len(given[w].outs), rows |-> <<given[w].outs>>]
             /\ given[w].outs \in [1..Len(Outs(tid)) -> Values \cup {Null}]
             /\ Len(given[w].outs) = Len(Outs(tid)) /\ conn[w].state = "open"
             /\ Len(Outs(tid)) \in Nat
  <2>1. /\ Servable(req[w]) /\ given[w].res \in Tables /\ Suits(req[w], given[w].res, given[w].outs)
        /\ (t = NoResult /\ Starved(w)) \/ t = [columns |-> Len(given[w].outs), rows |-> <<given[w].outs>>]
        /\ conn[w].state = "open"
        /\ given[w].outs \in [1..Len(Outs(tid)) -> Values \cup {Null}]
    BY <1>1, <1>3, <1>5 DEF WorkerOK, Unharmed, Steps, Suited, Starved
  <2>2. Len(Outs(tid)) \in Nat
    BY <2>1, <1>4, TableFacts
  <2>3. Len(given[w].outs) = Len(Outs(tid))
    BY <2>1, <2>2, FunctionIsSequence
  <2> QED BY <2>1, <2>2, <2>3
<1>6. ~fault => good \/ Starved(w)
  <2> SUFFICES ASSUME ~fault, ~Starved(w) PROVE good
    OBVIOUS
  <2>0. t = [columns |-> Len(given[w].outs), rows |-> <<given[w].outs>>] /\ t.rows[1] = given[w].outs
    BY <1>5
  <2>1. t # NoResult
    <3>1. t.rows = <<given[w].outs>> /\ <<given[w].outs>> # <<>>
      BY <2>0
    <3> QED BY <3>1 DEF NoResult
  <2>2. t.columns >= Len(Outs(tid)) /\ Len(Outs(tid)) <= Len(Results(tid))
    BY <2>0, <1>5 DEF Servable
  <2>3. Len(Results(tid)) \in Nat
    BY <1>4, <1>5, TableFacts
  <2>4. ASSUME NEW n \in 1..Len(Outs(tid)) PROVE Readable(ItemOf(Results(tid)[n]), t.rows[1][n])
    <3>1. n \in 1..Len(Results(tid)) /\ n \in 1..Len(given[w].outs)
      BY <2>2, <2>3, <1>5
    <3>2. ItemOf(Results(tid)[n]) \in Typed /\ given[w].outs[n] # Null
      BY <3>1, <1>5 DEF Suits, Servable
    <3> QED BY <3>2, <2>0, HandlerAssumption DEF Readable
  <2> QED BY <2>1, <2>2, <2>4
<1>7. CASE ~good /\ Die(w)
  BY <1>6, <1>7, DieIInv DEF IInv, TypeOK
<1>8. CASE ~(~good /\ Die(w))
  <2>1. /\ good /\ var' = [var EXCEPT ![w] = StoreOuts(tid, t.rows[1], @)] /\ Taken(w)
        /\ pc' = [pc EXCEPT ![w] = "serialize"]
        /\ req' = req /\ given' = given /\ executed' = executed /\ served' = served
        /\ fault' = fault /\ dead' = dead
    BY <1>2, <1>8
  <2>2. /\ conn' \in [Workers -> ConnType] /\ \A v \in Workers \ {w} : conn'[v] = conn[v]
        /\ conn'[w].waiting = NoResult /\ conn'[w].more = conn[w].more
        /\ conn'[w].outs = conn[w].outs /\ conn'[w].state = conn[w].state
        /\ \A v \in Workers : conn'[v].state # "open" => conn'[v].waiting = NoResult
    BY <2>1, TakenFacts
  <2> HIDE DEF t, good
  <2>3. /\ DOMAIN var' = Workers /\ \A v \in Workers \ {w} : var'[v] = var[v]
        /\ var'[w] = StoreOuts(tid, t.rows[1], var[w])
    BY <2>1 DEF IInv, TypeOK
  <2>4. /\ pc' \in [Workers -> Steps \cup {"idle", "answered"}] /\ pc'[w] = "serialize"
        /\ \A v \in Workers \ {w} : pc'[v] = pc[v]
    BY <2>1 DEF IInv, TypeOK, Steps
  <2>5. TypeOK'
    <3>1. \A v \in Workers : pc'[v] # "idle" => req[v] \in Requests
      BY <2>4, <1>4 DEF IInv, TypeOK
    <3> QED BY <3>1, <2>1, <2>2, <2>3, <2>4 DEF IInv, TypeOK, ConnType
  <2>6. Outs(tid) # <<>>
    BY <1>1, <1>3 DEF WorkerOK, Kept
  <2>7. WorkerOK(conn'[w], pc'[w], req'[w], var'[w], given'[w], executed'[w], fault')
    <3>1. Counted(conn'[w], pc'[w], req'[w], given'[w], executed'[w])
      BY <2>1, <2>2, <2>4, <1>4 DEF Counted
    <3>2. Kept(pc'[w], req'[w], var'[w], given'[w])
      BY <2>1, <2>4, <2>6 DEF Kept
    <3>3. ASSUME ~fault PROVE Unharmed(conn'[w], pc'[w], req'[w], var'[w], given'[w], executed'[w])
      <4>1. Completed(var[w], req[w], given[w].res)
        <5>1. var[w] = StoreRows(tid, given[w].res, req[w].var)
          BY <1>1, <1>3 DEF WorkerOK, Kept
        <5> QED BY <5>1, <3>3, <1>4, <1>5, RowsComplete
      <4>2. Completed(var'[w], req[w], given[w].res)
        <5>1. t = [columns |-> Len(given[w].outs), rows |-> <<given[w].outs>>]
          BY <3>3, <1>5, <2>1 DEF good
        <5>2. var'[w] = StoreOuts(tid, given[w].outs, var[w])
          BY <5>1, <2>3
        <5> QED BY <4>1, <5>2, <3>3, <1>4, <1>5, OutsComplete
      <4>3. Serializable(tid, var'[w])
        BY <4>2, <3>3, <1>4, <1>5, CompletedSerializable
      <4> QED BY <4>3, <3>3, <1>5, <2>1, <2>2, <2>4 DEF Unharmed
    <3> QED BY <3>1, <3>2, <3>3, <2>1 DEF WorkerOK
  <2>8. (fault => fault') /\ (dead' = {} \/ fault')
    BY <2>1, <1>1
  <2> QED BY <2>1, <2>2, <2>3, <2>4, <2>5, <2>7, <2>8, WorkerStepIInv
<1> QED BY <1>7, <1>8

\* A variable that its rows completed is serialized.
LEMMA SerializeIInv ==
    ASSUME IInv, NEW w \in Workers, Serialize(w)
    PROVE  IInv'
<1>1. pc[w] = "serialize" /\ dead = {}
  BY DEF Serialize, At
<1>2. WorkerOK(conn[w], pc[w], req[w], var[w], given[w], executed[w], fault)
  BY OfWorker
<1>3. ~fault => Serializable(req[w].tid, var[w])
  BY <1>1, <1>2 DEF WorkerOK, Unharmed
<1>4. CASE ~Serializable(req[w].tid, var[w]) /\ Die(w)
  BY <1>3, <1>4, DieIInv DEF IInv, TypeOK
<1>5. CASE ~(~Serializable(req[w].tid, var[w]) /\ Die(w))
  <2>1. /\ pc' = [pc EXCEPT ![w] = "answered"]
        /\ conn' = conn /\ req' = req /\ var' = var /\ given' = given /\ executed' = executed
        /\ served' = served /\ fault' = fault /\ dead' = dead
    BY <1>5 DEF Serialize, Goto
  <2>2. /\ pc' \in [Workers -> Steps \cup {"idle", "answered"}] /\ pc'[w] = "answered"
        /\ \A v \in Workers \ {w} : pc'[v] = pc[v]
    BY <2>1 DEF IInv, TypeOK, Steps
  <2>3. TypeOK'
    <3>1. \A v \in Workers : pc'[v] # "idle" => pc[v] # "idle"
      BY <1>1, <2>2
    <3> QED BY <3>1, <2>1, <2>2 DEF IInv, TypeOK
  <2>4. WorkerOK(conn'[w], pc'[w], req'[w], var'[w], given'[w], executed'[w], fault')
    <3>1. Counted(conn'[w], pc'[w], req'[w], given'[w], executed'[w])
      BY <1>1, <1>2, <2>1, <2>2 DEF WorkerOK, Counted
    <3>2. Kept(pc'[w], req'[w], var'[w], given'[w])
      BY <1>1, <1>2, <2>1, <2>2 DEF WorkerOK, Kept
    <3>3. fault \/ Unharmed(conn'[w], pc'[w], req'[w], var'[w], given'[w], executed'[w])
      BY <1>1, <1>2, <2>1, <2>2 DEF WorkerOK, Unharmed, Steps
    <3> QED BY <3>1, <3>2, <3>3, <2>1 DEF WorkerOK
  <2>5. (fault => fault') /\ (dead' = {} \/ fault')
    BY <1>1, <2>1
  <2> QED BY <2>1, <2>2, <2>3, <2>4, <2>5, WorkerStepIInv
<1> QED BY <1>4, <1>5

\* Every step keeps the invariant.
LEMMA NextIInv == IInv /\ [Next]_vars => IInv'
<1> SUFFICES ASSUME IInv, [Next]_vars PROVE IInv'
  OBVIOUS
<1>1. CASE UNCHANGED vars
  BY <1>1 DEF vars, IInv, TypeOK, OnlyUnreadKills, Starved
<1>2. ASSUME NEW w \in Workers, Begin(w) \/ BadRequest(w) \/ WorkerStep(w) \/ ConnectionLost(w)
      PROVE  IInv'
  BY <1>2, BeginIInv, BadRequestIInv, ConnectionLostIInv, ConnectIInv, CallIInv, StoreIInv,
     SelectIInv, FetchIInv, SerializeIInv DEF WorkerStep
<1> QED BY <1>1, <1>2 DEF Next, Over

-----------------------------------------------------------------------------
(* Theorems.                                                               *)

\* In every run of the handlers, at each step of a request, its thread has what
\* the steps before it have done and nothing of another thread's.
THEOREM HandlerInvariant == Spec => []IInv
<1>1. Init => IInv
  BY InitIInv
<1>2. IInv /\ [Next]_vars => IInv'
  BY NextIInv
<1> QED BY <1>1, <1>2, PTL DEF Spec

\* The state of the handlers and their connections has its type.
THEOREM HandlerTypeCorrect == Spec => []TypeOK
<1>1. IInv => TypeOK
  BY DEF IInv
<1> QED BY <1>1, HandlerInvariant, PTL

\* For any number of threads, functions, requests and result sets, no request
\* runs its procedure twice, and an answered one has run it.
THEOREM CalledOnceCorrect == Spec => []CalledOnce
<1>1. IInv => CalledOnce
  <2> SUFFICES ASSUME IInv, NEW w \in Workers
               PROVE  executed[w] <= 1 /\ (pc[w] = "answered" => executed[w] = 1)
    BY DEF CalledOnce
  <2>1. WorkerOK(conn[w], pc[w], req[w], var[w], given[w], executed[w], fault)
    BY OfWorker
  <2>2. pc[w] \in Steps \cup {"idle", "answered"}
    BY DEF IInv, TypeOK
  <2> QED BY <2>1, <2>2 DEF WorkerOK, Counted, Steps
<1> QED BY <1>1, HandlerInvariant, PTL

\* For any threads, functions, responses and result sets: while the connections
\* are kept, every CALL that runs gives what suits it and the requests can be
\* served, a thread ends the process only at a query that its connection refused
\* because results of its own earlier queries were left unread.
THEOREM OnlyUnreadKillsCorrect == Spec => []OnlyUnreadKills
<1>1. IInv => OnlyUnreadKills
  BY DEF IInv
<1> QED BY <1>1, HandlerInvariant, PTL

\* The values that rows of t have for occurrence j of an item.
RowValues(tid, t, f, j, item) ==
    IF j < Len(t.rows)
    THEN {ValueFrom(item, t.rows[j + 1][c]) : c \in {d \in 1..Width(tid, t) :
             ftdc_path(Results(tid)[d]).fid = f /\ ftdc_path(Results(tid)[d]).item = item}}
    ELSE {}

\* Either x has one of them, or there is none and x has what v has.
ValueOf(x, v, f, j, item, stored) ==
    \/ get_field_item(x, f, j, item) \in stored
    \/ stored = {} /\ HasItem(v, f, j, item)
       /\ get_field_item(x, f, j, item) = get_field_item(v, f, j, item)

\* The variable with the rows in it has the values of the rows, column by column,
\* and elsewhere the request's.
LEMMA StoredRows ==
    ASSUME NEW r \in Requests, NEW tid \in DOMAIN Functions, NEW t \in Tables,
           NEW x, x = StoreRows(tid, t, r.var),
           NEW f \in DOMAIN x, NEW j \in 0..Len(x[f]) - 1, NEW item \in DOMAIN x[f][j + 1]
    PROVE  ValueOf(x, r.var, f, j, item, RowValues(tid, t, f, j, item))
<1> DEFINE stored == RowValues(tid, t, f, j, item)
<1> USE DEF RowValues, ValueOf
<1> DEFINE N == Len(t.rows) * Width(tid, t)
           writes == RowWrites(tid, t)
<1>1. SetBy(x, r.var, writes, N)
  BY HandlerAssumption, StoreRowsSets
<1>2. Len(t.rows) \in Nat /\ Width(tid, t) \in Nat
  BY TableFacts
<1>3. /\ \A n \in 1..N : \E row \in 0..Len(t.rows) - 1, col \in 1..Width(tid, t) :
            writes[n] = RowWrite(tid, t, row, col)
      /\ \A row \in 0..Len(t.rows) - 1, col \in 1..Width(tid, t) : \E n \in 1..N :
            writes[n] = RowWrite(tid, t, row, col)
  BY RowWritesFacts
<1> HIDE DEF N, writes
<1>4. j \in Nat /\ HasItem(x, f, j, item)
  <2>1. IsVariable(x)
    BY <1>1 DEF SetBy
  <2>2. field_count(x, f) = Len(x[f]) /\ field_count(x, f) \in Nat
    BY <2>1, FieldCount DEF field_count, Occurrences
  <2> QED BY <2>2 DEF HasItem
<1>5. /\ HasItem(r.var, f, j, item) \/ \E k \in 1..N : Targets(writes[k], f, j, item)
      /\ \/ \E k \in 1..N : Targets(writes[k], f, j, item) /\ get_field_item(x, f, j, item) = writes[k].value
         \/ /\ \A k \in 1..N : ~Targets(writes[k], f, j, item)
            /\ get_field_item(x, f, j, item) = get_field_item(r.var, f, j, item)
  BY <1>1, <1>4 DEF SetBy
<1>6. ASSUME NEW k \in 1..N, Targets(writes[k], f, j, item) PROVE writes[k].value \in stored
  <2>1. PICK row \in 0..Len(t.rows) - 1, col \in 1..Width(tid, t) : writes[k] = RowWrite(tid, t, row, col)
    BY <1>3
  <2>2. /\ row = j /\ ftdc_path(Results(tid)[col]).fid = f /\ ftdc_path(Results(tid)[col]).item = item
        /\ writes[k].value = ValueFrom(item, t.rows[row + 1][col])
    BY <2>1, <1>6 DEF RowWrite, Targets
  <2>3. j < Len(t.rows)
    BY <2>2, <1>2
  <2> QED BY <2>2, <2>3
<1>7. ASSUME NEW z \in stored PROVE \E k \in 1..N : Targets(writes[k], f, j, item)
  <2>1. j < Len(t.rows)
    BY <1>7
  <2>2. PICK d \in 1..Width(tid, t) :
           ftdc_path(Results(tid)[d]).fid = f /\ ftdc_path(Results(tid)[d]).item = item
    BY <1>7, <2>1
  <2>3. j \in 0..Len(t.rows) - 1
    BY <2>1, <1>2, <1>4
  <2>4. PICK k \in 1..N : writes[k] = RowWrite(tid, t, j, d)
    BY <2>3, <1>3
  <2> QED BY <2>2, <2>4 DEF RowWrite, Targets
<1>8. CASE \E k \in 1..N : Targets(writes[k], f, j, item) /\ get_field_item(x, f, j, item) = writes[k].value
  BY <1>6, <1>8
<1>9. CASE /\ \A k \in 1..N : ~Targets(writes[k], f, j, item)
           /\ get_field_item(x, f, j, item) = get_field_item(r.var, f, j, item)
  <2>1. stored = {}
    BY <1>7, <1>9
  <2> QED BY <2>1, <1>5, <1>9
<1> QED BY <1>5, <1>8, <1>9

\* Whatever the other threads' calls do in between, a request without out items
\* is answered from the rows that its own CALL gave.
THEOREM AnswersOwnCallCorrect == Spec => []AnswersOwnCall
<1>1. IInv => AnswersOwnCall
  <2> SUFFICES ASSUME IInv, NEW w \in Workers, pc[w] = "answered", Outs(req[w].tid) = <<>>,
                      NEW f \in DOMAIN var[w], NEW j \in 0..Len(var[w][f]) - 1,
                      NEW item \in DOMAIN var[w][f][j + 1]
               PROVE  ValueOf(var[w], req[w].var, f, j, item,
                              RowValues(req[w].tid, given[w].res, f, j, item))
    BY Zenon DEF AnswersOwnCall, FromRows, ValueOf, RowValues
  <2>1. WorkerOK(conn[w], pc[w], req[w], var[w], given[w], executed[w], fault) /\ req[w] \in Requests
    BY OfWorker
  <2>2. /\ req[w].tid \in DOMAIN Functions /\ given[w].res \in Tables
        /\ var[w] = StoreRows(req[w].tid, given[w].res, req[w].var)
    BY <2>1 DEF WorkerOK, Counted, Kept, Callable
  <2>3. PICK r \in Requests, tid \in DOMAIN Functions, t \in Tables, x \in {var[w]} :
           r = req[w] /\ tid = req[w].tid /\ t = given[w].res
    BY <2>1, <2>2
  <2>4. x = var[w]
    OBVIOUS
  <2>5. ValueOf(x, r.var, f, j, item, RowValues(tid, t, f, j, item))
    BY <2>2, <2>3, <2>4, StoredRows
  <2> QED BY <2>3, <2>4, <2>5
<1> QED BY <1>1, HandlerInvariant, PTL
=============================================================================
