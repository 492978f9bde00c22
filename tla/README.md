# dcserver: TLA+ models, model checks and proofs

`dcserver` answers FTD requests over TCP. A frame is read from a connection, its content is
turned into a variable of fields and items, a stored procedure is called in MySQL, and the results
are put into response buffers. What a package, a field or a function looks like is not in the
code: two small tools, `make_protocal` and `make_function`, put XML descriptions into sqlite
databases, and the server looks everything up there while it works.

This directory holds models of the parts that carry the logic, TLC configurations for small
instances, and TLAPS proofs of what holds for every instance. `PROJECT.json` is the index: which
definition models which lines, which run checks which property, which mutant each property was
seen to catch.

## Inventory

### `server` and the read side of `ftdsession` (`server.cpp`, `ftdsession.cpp`)

*State*: `io_service_`, `acceptor_`, `new_connection_`, a `signal_set`; for each session the
socket, the strand, and the frame that is being read. *Operations*: `run` (threads that all call
`io_service::run`, then `join`), `start_accept`, `handle_accept`, `handle_stop`, `start`,
`handle_read_ftd_header`, `handle_read_ftd_extendheader`, `handle_read_ftdc`.
*Hard*: any thread may take any completion handler; `handle_accept` uses `new_connection_`
without a lock; `start()` runs outside the strand; a session lives as long as somebody holds its
`shared_ptr`, and nobody holds it by name.
*Correct means*: no two threads in one session's members, no session freed early or kept for
ever, the server always listens again, a signal ends the process.

### The write side of `ftdsession`

`response` and three `handle_write_*` functions. At this commit nothing calls `response`:
`handle_read_ftdc` calls the request handler and arms nothing. `handle_write_ftd_extendheader`
names itself as the handler of the write that follows it. No state of the program is inside these
functions, so they have no module; see *Disagreements* for what that means for a peer.

### `ftd_protocalif` and `functionif` (`ftd_protocalif.cpp`, `functionif.cpp`)

*State*: an sqlite connection and prepared statements (nine and four), each with a cursor and a
bound key. *Operations*: eight and four `const` lookups, each `clear_bindings`, `reset`, `bind`,
`step`, `column_*`. *Hard*: the io threads share the objects and the statements, without a lock;
`bind_text` is given `NULL` as its destructor, so sqlite keeps a pointer to the caller's string;
`column_text` points into the statement; a constructor may fail at any statement; the objects
are copied, and every copy's destructor finalizes what all copies share. *Correct means*: a lookup
returns the rows of its own argument, whatever was done with the statement before, and everything
that was opened is released once.

### `ftdc_buffer` and `serialize_ftdc_content` (`ftdc_buffer.hpp`, `ftdc_content.cpp`)

*State*: the buffer that is being filled, the buffers that are full. *Operations*: `add_field`,
`get_field`, `reset`, and the two loops over the field list and over the occurrences of a field.
*Hard*: the split at the limit, one step in the middle that throws. *Correct means*: every field
goes into the chain once and in order, buffers are well-formed, what is returned is complete.

### `make_protocal` (`make_protocal.cpp`)

*State*: the sqlite file. *Operations*: `type_table`, `item_table`, `field_table`, `tid_table`,
`package_table`, one row at a time, each row a transaction. *Hard*: it may be killed or throw
anywhere, its exit code is 0 all the same, and it is run again over what is there; numbers stand
in the XML in three notations. *Correct means*: a finished run stored the document; the
server finds one row for a number or a name.

### `make_function` (`make_function.cpp`)

*State*: the sqlite file with four tables. *Operations*: a fixed sequence of drops, creates and
inserts, in the file that is there. *Hard*: as for `make_protocal`, and a server may open the file
in the middle. *Correct means*: a reader sees one document, as far as it has been stored.

### `parse_ftdc_content` and `ftdc_variable` (`ftdc_content.cpp`, `ftdc_variable.hpp`)

*State*: for every field name a vector of occurrences, each a map of items; while parsing, a count
per fid. *Operations*: `set_field_item`, `get_field_item`, `field_count`, the parsing loop.
*Hard*: fields of several fids mixed; counts and lengths that the peer wrote and nothing compares with
the buffer; checks that come after the value was stored. *Correct means*: the j-th field of a fid is
the j-th occurrence, and a value is made of its field.

### `request_handle_fuc` and `dbconnpool` (`dcserver.cpp`, `dbconnpool.cpp`, `ftdc_path.hpp`)

*State*: a `thread_local` MySQL connection, with unread results and user variables; the request's
variable. *Operations*: connect once, `CALL`, store rows, `SELECT` the out values, serialize.
*Hard*: results of a query are ignored, a result set may be null, a connection may be lost, results
may be left unread; the results go into the variable that still holds the request. *Correct means*:
an answer consists of what the request's own call gave; nothing is called twice; no request hangs.

### `ftd_item_value.hpp`

*State*: none that outlives a call. *Operations*: two factories, six constructors, `data()`.
*Hard*: texts that are shorter or longer than the item, what lies behind it, sign and padding,
numbers out of range. *Correct means*: an item fills its place and is read as it was written.

### Not modelled

| part | why |
|---|---|
| `response` and the `handle_write_*` functions | nothing calls them; see above |
| `str()` of the items and the text of the SQL statements | wording; a value is what a CALL is given |
| `ftdc_path.cpp` | the same code as in `ftdc_path.hpp`, which the other files include |
| `ftdc_variable::count`, the three-part constructor of `ftdc_path`, `free_mysql` | no caller |
| command line and defaults | pure input: their values are the CONSTANTS |
| unit tests | read as statements about the code, quoted in the findings |
| boost::asio, sqlite, MySQL, streams, the XML parser | external; modelled as far as the code relies on them |

Frame lengths are taken to fit the members they are read into (`ftdsession.cpp:78`).

### How the parts interact

`server` accepts a connection and starts a session; the session reads three pieces and calls
`request_handle_fuc` in the io thread, inside its strand. That function parses (`parse_ftdc_content`,
with lookups), finds the tid's name (`get_tidname`), calls `dbconnpool::invoke` (lookups, MySQL)
and `serialize_ftdc_content` (lookups, buffers). An exception in any of these is not caught on the
way, leaves `io_service::run` and terminates the process. The lookups read what `make_protocal`
and `make_function` wrote.

In `main` as it stands, `std::bind` copies the two lookup objects, whose destructors finalize the
statements that the copies share, so that the server runs with finalized statements.
`HandlerCopies` shows this. All other modules take the statements as prepared, that is, they
are about the code with one owner: `StmtLookup` about one object and many threads, `FtdServer`,
`ParseContent`, `RequestHandler` and `FtdcSerialize` about what is done with what it answers.
`RequestHandler` composes the request's steps: it takes a variable as `ParseContent` leaves it,
works on it with the operators of `FtdcVariable` and ends with the conditions of
`serialize_ftdc_content` that `FtdcSerialize` has in detail; `FtdServer` has the same handler as
one task that returns or throws.

## Modules

| module | models |
|---|---|
| `FtdServer` | `server.cpp`, the read side of `ftdsession.cpp`, and from `dcserver.cpp` that a request returns or throws |
| `FtdServerProofs` | its invariants, proved |
| `StmtLookup` | every lookup of `ftd_protocalif` and `functionif`, call by call |
| `StmtLookupProofs` | isolated lookups are right, and what `HandlerCopies` promises, proved |
| `FtdcSerialize` | `serialize_ftdc_content` and `ftdc_buffer` |
| `FtdcSerializeProofs` | splitting, and the conversions of `ItemValue`, proved |
| `MakeProtocal` | `make_protocal.cpp`, and when `ftd_protocalif` can open its file |
| `MakeProtocalProofs` | its invariants and that it implements `Dictionary`, proved |
| `MakeFunction` | `make_function.cpp`, and what `functionif` sees of its file |
| `MakeFunctionProofs` | its invariants and that it implements `Dictionary`, proved |
| `Dictionary` | abstract: what a reader of a database may see; both tools implement it |
| `FtdcVariable` | `ftdc_variable.hpp`, as operators |
| `LoopLemmas` | lemmas: loops as recursive functions, and what loops over `set_field_item` leave in a variable |
| `ParseContent` | `parse_ftdc_content` |
| `ParseContentProofs` | its invariants, proved |
| `RequestHandler` | `request_handle_fuc` and `dbconnpool::invoke` on several threads |
| `RequestHandlerProofs` | its invariants, proved |
| `HandlerCopies` | construction, copies and destruction of the two lookup classes in `main`, server and sessions |
| `ItemValue` | `ftd_item_value.hpp` |
| `MC...` | instances for TLC |

An operator that is called a mutant in its comment is a plausible wrong version of the definition
after it. No specification uses it; it is there to show that the property named in `PROJECT.json`
would notice.

### FtdServer

boost::asio is a set of outstanding operations. `AcceptCompletes`, `ReadCompletes` and
`SignalArrives` complete one; `RunAccept(w)`, `RunRead(w, s)` and `handle_stop(w)` are thread `w`
taking its handler. A handler is not atomic: `handle_accept` is taken, then `start`, then
`start_accept`; a strand handler has its body, possibly the request, and its return
(`HandlerReturns`), when the `shared_ptr` bound to it is given back. `RunRead` requires that no
other thread is in a handler of the session, which is what the strand does.

`refs` is the `shared_ptr` use count. A session object that is freed may be allocated again:
`Sessions` is a set of addresses. A read completes `ok`, `err`, or, for the ftdc part, `bad`:
its own header gives another length than the ftd header, and the handler closes the socket.

Properties: `AcceptChainSingle`, `MembersExclusive`, `RefsCountOwners`, `ReadsOnConnected`, and
for liveness `AcceptRearmed`, `SignalEndsProcess`, `BrokenConnectionFreed`.

*Fairness*. `io_service::run` hands out queued handlers first in, first out, and a thread that is in a
handler goes on: weak fairness for each thread's own steps and for the `join`. Which thread
takes a handler is open, and a handler is only takeable while some thread is idle (for a read:
while the strand is free too), so that it is taken at all needs strong fairness of taking it by
some thread. Nothing is assumed about peers: no fairness on accepts, reads or signals completing.
A request is assumed to return or throw; a MySQL call that never answers would be outside this.

*Bounds*. Three threads and two session objects: one connection is being accepted while another
is served, and a thread is left over. The safety properties are proved for any number of both.
No symmetry, since liveness is checked.

### StmtLookup

One action for each sqlite call (`clear_bindings`, `reset`, `bind`, `step`, `column_int`,
`column_text`) and one for the copy of the text into a `std::string`. The twelve member functions
are records (statement, key type, columns, one row or all); `get_itemtypeinfo` goes on with
`TypeInfo` unless the item has a base type. A statement keeps its row position and its bound key
together with whose string the key is: when that lookup has ended, the pointer dangles and what
the statement reads through it is any key or none. `clean[w]` says that no other thread has
changed the statement since `w`'s lookup began using it.

* `IsolatedLookupCorrect`: a clean lookup is right, whatever state earlier lookups left.
* `CrashOnlyByInterference`: the process dies in a lookup only if it was interfered with.
* `LookupCorrect`: every lookup is right. True for one thread (proved, `SingleThreadCorrect`),
  false for two (run `lookup_race`): the code has no lock around the sequence of calls.

sqlite itself is assumed to work: no `sqlite3_step` fails, for want of memory, on a broken file or on
a locked one. The code relies on that: `get_items` (`functionif.cpp:99`) takes anything that is not a
row for the end of its list, so a failing step would shorten the list unnoticed, and `sqlite3_reset`
returns the error of the last step, so the next lookup with that statement would throw. None of the
properties says anything about such a step.

*Bounds*. Two threads are enough for interference; three keys give a hit, another hit and a miss,
lists of two rows; every lookup once per thread, so that a statement is also met as the other
thread's lookup left it. Any number of lookups is in the proofs. The threads are interchangeable
and the run uses that symmetry.

### FtdcSerialize

One action per turn of the inner loop (`AddField`, or `AddMissing` when an item is not there and
a null pointer is used), one for the checks before it (`CheckOccurs`), one for its end
(`NextEntry`) and one for `Return`. A field is where it came from and where it was put; its bytes
are left out.

`NothingLost`, `InOrder`: everything processed is in the chain exactly once, in order.
`BuffersWellFormed`: header counters, offsets and capacity agree. `SplitOnlyWhenFull`: a buffer is
closed only because the next field did not fit. `GetFieldFinds`: `get_field`, which walks by
lengths, finds every field that `add_field` put there. `ReturnsOnlyConforming`: what is returned
has the occurrences the protocol asks for. `AllFieldsReturned` is false (run `serialize_return`):
the buffer that is being filled when the loops end is not returned.

*Bounds*. A capacity of five bytes with fields of two, three and five: exact fits, splits, and a
field that fills a buffer; lists of up to two entries, up to three occurrences of each.

### MakeProtocal

`Begin` starts a run over what is there: reading the document or removing the old file may fail,
and so may opening the new one. `CreateTable`, then `Insert` for each definition, or `Throw` when
an attribute is missing, a check fails or sqlite refuses the row, then `NextTable`. `Killed` is
possible between any two statements. Numbers are texts (a prefix and digits); `NumberOf` is what
the stream reads: it stops at a digit that is none of the base and stores the largest int for a
number that is too large.

* `FinishedExact`: a finished run stored its document, and a number in any notation is found under
  its value (for texts that denote an int). The value is said independently of the stream: the sum
  of the digits times their place weights (`Denotes`).
* `Unambiguous`: at all times a number has one field or tid, and a name one field, item, tid or
  package. It is about the columns that are declared unique. Type names are left out: their column is
  declared `RPIMARY`, so a type can be defined twice, and its lookup takes the first. The packages of
  a tid are as many as there are.
* `PackagesFitTids`: a package's tid has a row, and the packages of a tid are of one model.
* `ReaderSeesOneDocument`, see below, is the refinement of `Dictionary`: if `ftd_protocalif` can open
  the file of a failed or killed run, then only packages can be missing, because each table
  is created when its turn comes.

*Bounds*. Two definitions in a section, since each check and constraint is between two rows, and
up to three packages: the number 16 in three notations, a clash, a broken octal, two numbers over
the limit; each section missing once. `IntMax` is 63 so that numbers over it have two digits.

### MakeFunction and Dictionary

A run is the sequence of its SQL statements (`Program(d)`); `Execute` does one, `Throw` ends the
run at one that fails (a duplicate key, a text with a quote, a part of a node that is not there),
`Killed` ends it anywhere, and the next run starts over what is left.

* `FinishedExact`: a finished run leaves its document, whatever was there before.
* `ReaderSeesOneDocument`: the refinement. `Dictionary` has one variable, what a reader sees, and
  three actions: `Open` (an empty document), `Add` (one more definition of it), `Close`. A
  document is never replaced by another without a time when nothing can be opened. The mapping is
  the tables if all are there and otherwise nothing; for `MakeProtocal`, whose other tables are
  full before `package` is created, a document is its packages. `Histories` are the contents that
  documents go through. So what a server can open is always the beginning of one document: the
  tables are all there only while one document is being inserted.

*Bounds*. Two tids with up to two items in a section, a duplicate tid, a missing section, a broken
text, an empty document, and any number of runs after each other.

### FtdcVariable and ParseContent

A request's buffer is memory of any content: the fid, the `field_length` and the bytes of each
field are what the peer sent, and so is `field_count`. `get_field` walks it by the lengths, as the
code does; only a length it has *arrived at* is compared with the protocol. `ParseField` is one
turn of the loop, all items of the field; `RefuseField` an exception in it; `Stray` a read outside
of the buffer, which is undefined in C++ and ends the model. `ValueOf` says which bytes a value is
made of: its `length` for char, int, number and word, up to a terminator within its length for a
string, and for a float everything up to the next terminator, however far that is
(`ftd_item_value.hpp:49`); an unknown base type gives a null pointer. `set_field_item` first
pushes back empty occurrences until the one it writes to is there (`Extended`), so an occurrence
can be there without its items. `get_field_item` of a field that never occurred reads behind the
map's end in the code; `HasItem` is the condition under which there is a value.

* `OccurrencesKept`: when the call returns, the j-th occurrence is made of the j-th field of that
  fid, and of nothing else. Items other than the first of a field are only said to be there (see
  *Disagreements*).
* `ValuesSound`: at any time, each value is made of a field of its name that the walk came to. No
  byte behind the field has a part in it, *unless it is a float*; a fixed type has all of its
  bytes, and an enumerated one is in its enumeration. So it needs the length check: without it a
  value can reach out of its field.

The buffer ends where its memory does; the code's is a larger array in the session, so what is
"undefined" here may read what earlier frames left there.

*Bounds*. Every memory of ten cells with three values (up to three fields, known and unknown fids,
right and wrong lengths, terminators anywhere or nowhere), every count up to three; every memory
of five cells with values from -1, so that the walk may also go backwards. Items of one cell: a
fixed one with an enumeration, a string, a float, one of no length and an unknown type; a field
with an item that is not described.

### RequestHandler

Per thread the steps `connect`, `call`, `store`, `select`, `fetch`, `serialize`, each one call to
MySQL or one block without any. A connection has at most one result waiting and a number of
results behind it, in which case it refuses a query, as the client library does. Nothing on the
way catches an exception, so a step that throws, or that uses a null pointer, ends the process
(`Die`): a null result or connection, a NULL column, an in item without a value, a literal that is
no path or names an item the protocol does not know (`get_itemtypeinfo`, `Readable`), a package
field without a row, an item whose unknown base type made a null pointer that is dereferenced
later (`ValueFrom`, `Serializable`). The two databases come from two documents that nothing
compares, so all of these are states the program can be in.

The environment may lose a connection at any moment, let a procedure fail before or after it did
its work, give no result, NULL, or fewer rows and columns than expected, and leave further
results. `fault` is a history variable: a connection could not be made or was lost, a procedure
failed or answered with what does not suit (`Suits`), or a request came that cannot be parsed or
served (`Servable`: its in items have values, the items of its results and of its response have
known base types, there are no more out items than result items, and each field of the response
has a row). `given` and `executed` are history too.

* `AnswersOwnCall`: occurrence j of an answer is row j of the request's own CALL, and what no row
  covers is the request's. It is about functions without out items. Old occurrences of a field that
  the response shares with the request do stay, as the code leaves them: the property permits
  them, and does not say that an answer has new rows only.
* `CalledOnce`: no request runs its procedure twice; an answered one ran it.
* `OnlyUnreadKills`: without a fault there is one thing that ends the process, and it is not a
  fault of anyone but the code: results that were not read. A MySQL server ends the results of
  every CALL that gave rows with a status, which `invoke` never reads; the connection then refuses
  the thread's next query, whose result is null. So with `StatusResults` 1, which is how MySQL
  behaves, a thread dies at its second query, be it the `SELECT` of the out values or the next
  request's CALL; with 0, which the code is written for, it lives. The property says both: who
  dies without a fault is `Starved` by results of its *own* earlier query, at that very step, and
  nothing else (another thread's calls, any mix of functions, what an earlier request left) takes
  away what a step needs.
* `EveryRequestEnds`: a request is answered or ends the process.

*Fairness*. Weak fairness of each thread's next step: the system runs threads, and a query is
answered or its connection ends (the code sets no timeouts, so a MySQL server that stays connected
and silent is outside of this).

*Bounds*. Two threads with two requests each: the second meets what the first left in the
connection. Functions with and without out items, result sets of no, one and two rows, of a
column too few or too many, and with NULL; an in item and a result item of an unknown base type, a
literal that is no path, a package field without a row, a tid without a function; no result or one
behind the rows.

### HandlerCopies

The handles of one object, shared by all copies. `Destroy` is a holder's destructor, `NewSession`
contains one: the by-value argument of the session's constructor. To release, or look up with,
what was released is undefined: the process dies or goes on. After `Constructed` the object is
used alone, as the unit tests do, or bound into the server.

* `NothingLeft`: after a constructor that failed, and at the end, nothing is open, except the
  statement that `ftd_protocalif::release` forgets, which keeps its connection as a zombie.
* `WholeUntilDropped`: through any number of copies, all statements are prepared until the first
  copy is destroyed. `AloneDefined`: without copies nothing is undefined.
* `LookupsPrepared` is false (run `handler_copies_server`).

*Bounds*. Both classes with all their statements, three session objects that are made again and
again. No fairness: these are safety properties.

### ItemValue

An item goes from a text (`Make`, as `dbconnpool` does) into a frame (`Write`, `data()`) and out
of it (`Read`, as `parse_ftdc_content` does), with arbitrary characters behind the text and behind
the item. Streams are modelled by what they do: blanks skipped, digits read up to the first other
character, for a float also a point and an exponent (`e` or `E`, a sign, digits; without digits
the whole number is spoilt and the result is 0), out of range to the nearest value, internal
padding, rounding either way at a half.

* `FillsItsPlace`: `data()` has exactly `size()` bytes. `ReadAsWritten`: what is read is what was
  written, except for floats. `NumberAsNamed`: against a reference, a number is the one its text
  names. `FloatAsWritten`: a float that fits is read as it was written, rounded, provided that what
  lies behind it does not begin with a digit, a point, `e` or `E` (see *Disagreements*).

*Bounds*. All texts of up to three characters out of seven (two digits for padding and overflow,
one for rounding, sign, point, blank, and `e`, a letter that also makes exponents), items of one
to four characters, so that texts are shorter, equal and longer; behind an item nothing, a digit,
an exponent, or a letter and a digit. `IntMax` and `WordMax` are 127 so that three digits
overflow. Negative texts for words are left out: standard libraries differ there; some of them
also take other characters than `e` and `E` into a float (hexadecimal digits, `inf`), which the
model, like the library the project is built with, does not. A float has at most two decimals
(`Places`) and is out of range from an exponent of four on (`MaxExp`, `FloatMax`); with so few
digits a `float` prints what it was read from.

## Runs

| run | result | question |
|---|---|---|
| `server` | passes | is the lock-free accept loop and the unstranded `start()` safe; does it listen again, stop on a signal, free broken sessions? |
| `lookup_shared` | passes | is a lookup right, and the process alive, unless it is interfered with? |
| `lookup_race` | violated | is every lookup right with two threads? |
| `serialize` | passes | is a response split correctly? |
| `serialize_return` | violated | is all of it returned? |
| `make_protocal` | passes | is the database right after runs that finish, fail or are killed, and does it implement `Dictionary`? |
| `make_function` | passes | the same for the function database |
| `parse` | passes | are occurrences counted right and values sound? |
| `request` | passes | does an answer come from its own call, what kills the process, does every request end? |
| `handler_copies` | passes | is everything released, and do copies work until one is destroyed? |
| `handler_copies_server` | violated | does the server look up with prepared statements? |
| `item_value` | passes | is an item read as it was written? |

Run one with `tlc -config MCFtdServer.cfg MCFtdServer`; `request` takes two to three minutes, the
others less than one. The violated runs are the findings
in `PROJECT.json`, each with the line of the repository that says otherwise.

Where nothing more can happen (the process has ended, all calls are made, the call has returned)
there is an explicit stuttering disjunct `Over`, so deadlock is checked everywhere.

### Disagreements

Three have a run: the race on the shared statements, the buffer that is not returned, the copies
that finalize the statements. Others are plain from the definition that models them, and no run
states them as a property:

* `handle_read_ftdc` (`ftdsession.cpp:173`) stores the answer and arms nothing. Nothing is
  written, the session is freed and the connection closed, though `FTD_protocal.xml:99` and `:112`
  give `TID_QryUserLogin` a request and a response of `model="dialog"`. (`handle_read_ftdc` of
  `FtdServer`.)
* `parse_ftdc_content` (`ftdc_content.cpp:45`) never advances `item_pos`: each item of a field is
  made of the field's first bytes, where the serializer puts them one behind the other
  (`ftdc_content.cpp:120`). (`Behind` of `ParseContent`.)
* `parse_ftdc_content` (`ftdc_content.cpp:21`) compares a request with the field list of the
  response. `FTD_protocal.xml:102` gives the request of `TID_UserLogin` the field
  `ReqUserLoginField`, which its response at `:180` does not have, so it is refused. (`Accepted`.)
* `dbconnpool::invoke` (`dbconnpool.cpp:212`) stores out value i at the path of result item i;
  `test_functionif.cpp:55` and `:70` have different ones for `TID_UserLogin`. (`StoreOuts` of
  `RequestHandler`.)
* `package_table` (`make_protocal.cpp:249`) means to refuse a package with an unknown field and
  steps a `COUNT(*)`, which gives a row in any case. (`check_field_stmt` of `MakeProtocal`.)
* `ftd_item_float_value` (`ftd_item_value.hpp:49`) does not bound what it reads by its length, so a
  float is read on into the next item, if that begins with a digit, a point or an exponent's `e` or
  `E`, and into whatever follows the buffer if there is no terminator; `test_ftdc_variable.cpp:190`
  has a literal that ends there. (`FromChars` of `ItemValue` and the condition in `FloatAsWritten`;
  `ValueOf`, `Stray` and the exception in `ValuesSound` of `ParseContent`.)
* `get_field` (`ftdc_buffer.hpp:67`) adds up lengths that a peer wrote, `field_count` of them, and
  compares nothing with the buffer. (`Stray` of `ParseContent`.)
* `invoke` (`dbconnpool.cpp:117`) never reads the status behind the rows of a CALL, so with MySQL's
  own behaviour a thread does not survive its second query. (`Starved` of `RequestHandler`.)
* `get_itemtypeinfo`, `get_fidvalue` and the factory's null pointer end the process when the two
  XML documents do not match; `function.xml` and `FTD_protocal.xml` are compared by nothing.
  (`Servable` of `RequestHandler` says what would have to match.)
* The name of a type is declared `RPIMARY` (`make_protocal.cpp:40`), which is no constraint.
  (`UniqueColumns`.)

## Proofs

`tlapm FtdServerProofs.tla`, and likewise the others. Each has an inductive invariant `IInv`,
`Init => IInv`, `IInv /\ [Next]_vars => IInv'`, and theorems that follow from `IInv`. Every `IInv`
was model-checked on the run's instance before it was proved.

**FtdServer**, for any set of threads and any non-empty set of session addresses
(`SessionAssumption`). `MembersExclusive` is not inductive: that nobody else is in a session
while a body runs rests on where its read is. `IInv` adds that a thread is on a session exactly
while in one of its handlers (`OnTask`), that a session has one thread (`StrandUnique`), that no
read is outstanding while a body runs (`BodyExcludesRead`: the next read is armed last), that the
session in `new_connection_` is untouched until `start()` ends (`NewConnUntouched`), and that
whoever is about to arm a read has a connected socket (`ArmsConnected`). Theorems:
`AcceptChainCorrect`, `MembersExclusiveCorrect`, `RefsCountCorrect`, `ReadsOnConnectedCorrect`,
`ServerTypeCorrect`.

**StmtLookup**, for any threads, keys, tables and number of calls (`LookupAssumption`: rows have
as many columns as are read). `IInv` says, per thread, where the code is (`ShapeInv`), what key it
is after (`ArgInv`), and, if it is clean, that the statement's cursor and its output agree with
the rows of that key. A step of another thread on the statement makes the lookup unclean, so it
keeps this trivially (`Bystander`); a step of the thread itself keeps it (`ThreadStep`). Theorems:
`IsolatedLookups`, `CrashesAreInterference`, `SingleThreadCorrect` (with at most one thread,
every lookup is clean), `LookupTypeCorrect`.

**FtdcSerialize**, for every field list, all counts and every capacity that takes each single
field (`PackagesAssumption`). `AddField` adds one slot behind all there are (`AddsOneSlot`); from
this follow `NothingLost` and `InOrder`. `IInv` adds where the loops are, that what lies in a
buffer was processed, and that entries passed were checked. For `GetFieldFinds`, the fields of a
well-formed buffer begin where the one before them ends (`OffsetsGrow`), so a walk by lengths
comes to each of them and to nothing else (`WalkFinds`). Theorems: `NothingLostCorrect`,
`InOrderCorrect`, `BuffersCorrect`, `SplitCorrect`, `GetFieldCorrect`, `ReturnsCorrect`,
`SerializeTypeCorrect`.

**LoopLemmas**. The loops of the code are recursive functions, and that such a function exists and
what it computes needs induction. The library's induction theorems take an operator; here induction
is over the set of numbers for which a fact holds (`BoundedInduction`), which rests on the least
element of a set of naturals (`LeastNatural`, from the well-foundedness of `<`). `LoopFunction`
gives a loop's function and `LoopInvariant` what is kept by its turns. On them rests what one
`set_field_item` does to a variable (`SetFieldItem`: exactly one item changes, and the field grows
exactly to the occurrence written) and what any list of such calls leaves (`SetsFacts`: an item is
there if it was or was written, with the value of a write to it or else its old one, and a
field is as long as it was or as its farthest write). The loops of `ParseContent` and of
`RequestHandler` are shown to be such lists.

**MakeProtocal**, for every set of documents whose sections are lists and whose numbers have
digits (`DocsAssumption`) and every `IntMax`. `Unambiguous` alone is not inductive: why a row of
an earlier run cannot clash is that a run starts with no table. `IInv` adds that a table is there
only if those before it are whole, also after a failed or killed run (`TablesInOrder`), which rows
the table being filled has (`Progress`), and that `tid_model` has the tids of all packages stored
(`ModelsNoted`). Theorems: `UnambiguousCorrect`, `PackagesFitTidsCorrect`, `ProtocalTypeCorrect`,
`FinishedExactCorrect` (with `NumberDenotes`: as long as a number is not over `IntMax`, the
stream's digit-by-digit value is the sum of its place weights), and `ProtocalRefinesDictionary`:
`Init` maps to `Init` and every step to `Open`, `Add`, `Close` or a stutter.

**MakeFunction**, for every set of documents that are lists of nodes whose sections, as far as
they are there, are lists (`NodeAssumption`), and any broken texts. `IInv` says what the tables
are before each statement of a run (`RunOn`): some gone, then some there again and empty, then
what the inserts so far have stored, `Stored(d)[n]`. Nothing is known about the tables of a run
that broke off but that they are tables (`AreTables`), and no more is needed, since the next run
drops them all first. `RunStep` takes `RunOn` over a statement. That the statements of a program
are those of the nodes, each in its place, is `Located` and `EachOfANode` (`Inserts` is a
recursive function). For `FunctionFinishedExact` the rows of a table are the inserts into it
(`StoredRows`), tid_sp has a row for each node (`TidsStored`), so names differ, or an insert had
failed on the key; so the rows with one name and the items of that node are in bijection
(`ItemsStored`). Theorems: `FunctionFinishedExact`, `FunctionRefinesDictionary` (`OpenWhen`: all
four tables are there exactly from the last creation to the next first drop),
`FunctionTypeCorrect`.

**HandlerCopies** (in `StmtLookupProofs`: both are about the statements of the two interfaces, who
uses them and who owns them), for every list of different statements, provided that a class which
closes with `sqlite3_close` releases all of its statements (`ClassesAssumption`; `functionif`
does, and the other class, whose release forgets one, closes with `sqlite3_close_v2`).
`CopiesIInv` says what an object is through its life: nothing but the constructor's before it is
built, `Intact` while nothing was dropped, `Released` after. That `release` makes the same of both
(`ReleaseReleases`) is why any number of destructors end in the same state. Theorems:
`NothingLeftCorrect`, `WholeUntilDroppedCorrect`, `AloneDefinedCorrect`.

**ParseContent**, for every protocol whose field and item names are different, and every memory
and count (`ProtocolAssumption`). `OccurrencesKept` is about the return; `IInv` says it after each
field: as many occurrences as fields of that fid so far, each made of its place (`Kept`). That
`get_field` is the walk from one field to the next is a loop (`LoopLemmas`); nothing is assumed
about where it arrives. `ValuesSound` rests on the length check of the very field that is read: an
item is not longer than its field (`ItemFits`, over the sum that is `get_field_size`), so what is
read of fixed length or up to a terminator within it is in the field. Theorems:
`ValuesSoundCorrect`, `OccurrencesKeptCorrect`.

**RequestHandler**, for any threads, functions, responses, tables and numbers of requests
(`HandlerAssumption`). Besides types it assumes what other parts promise: the variable of a
request has, in every occurrence of a field, all of its items, with a null pointer only for an
unknown base type, which is what `OccurrencesKept` says of `parse_ftdc_content`, and a row of a
result has as many values as the result has columns, as MySQL gives them. Nothing is assumed of
the two descriptions. `IInv` is per thread: how often the procedure ran and whose result waits in
the connection (`Counted`), that the variable is the request's until its own rows are stored
(`Kept`), and, unless there was a fault, that every step finds what it needs or meets results that
were left unread (`Unharmed`). `OnlyUnreadKills` needs the whole way: every column of a row that
suits makes a value (`RowGivesValue`), rows that suit a request make its variable one that can be
serialized (`RowsComplete`), and the out values add no occurrence and no null pointer
(`OutsComplete`). Theorems: `CalledOnceCorrect`, `OnlyUnreadKillsCorrect`, `AnswersOwnCallCorrect`
(from `StoreRowsSets`: place n of the loop is a row and a column, and each row and column has its
place), `HandlerTypeCorrect`.

**ItemValue** (in `FtdcSerializeProofs`: the items of the fields it splits), for every set of
items with a length and at most `Places` decimals, every set of texts and tails over any
characters, and every `IntMax` and `WordMax` (`ItemAssumption`). The path of an item is short, so
`ItemIInv` only says where its value, its frame and what is read again come from; the work is in
the conversions. A text is split at a character in one way only (`UpToSplits`, `UpToConcat`), so a
sign, zeros, digits, and then something else is read as that (`ParsedFacts`, `ParsedOf`). Reading
digits one after the other is undone by repeated division (`DecimalShown`), digits behind others
weigh less by a power of ten (`DecimalConcat`), and what is shown is never longer than the digits
it was read from (`ShownFits`): that is why a number always fits in its item. For a float, what is
written names a number of units near it (`FixedFacts`), and the reader finds just these digits and
no exponent (`PointRead`, `FloatOf`). Theorems: `FillsItsPlaceCorrect`, `ReadAsWrittenCorrect`,
`NumberAsNamedCorrect`, `FloatAsWrittenCorrect`. They are about the model's floats, which are
exact decimals; the binary rounding of `double` is not in them.

*Only model-checked*: liveness (`AcceptRearmed`, `SignalEndsProcess`, `BrokenConnectionFreed`,
`EveryRequestEnds`): fairness and ENABLED are out of the prover's reach. Every other property of a
passing run is proved.

## Plan

All modules of the plan are model-checked, and their safety properties and refinements proved.
What is left is what the model leaves out on purpose: the write side of `ftdsession`, which the
program does not call (see *Not modelled*), `str()` of the items, and binary floats.
