# A verification development for Roadsend PHP

Roadsend PHP compiles PHP to Scheme (Bigloo) and C. What runs at a PHP page is a runtime
library (`runtime/`, mostly Scheme), an evaluator and a compiler (`compiler/`), and a set of
front ends (`webconnect/`) of which the FastCGI one keeps worker processes alive from one
page to the next. This directory holds TLA+ models of the parts with state that is hard to
get right, their TLC instances, and proofs that the TLA+ proof system checks.

Paths below are relative to the repository's root.

## 1. The system

| Component | Code | State it keeps | Operations | What is hard |
|---|---|---|---|---|
| Arrays: lazy copies | `runtime/php-hash.scm` | per table: array pointer, maximum key; shared between copies: entries and a counter cell | insert, push, remove, pop, clear, sort, references, pointer moves, `copy-php-data`, `%force-copy!` | a write may reach entries another variable still uses; the counter is never taken down for garbage; the pointer must move to the new entries |
| Arrays: the table | `runtime/php-hash.scm` | bucket chains, doubly linked entry list, pointer, size, threshold | the same, and growth, separation, walks with callbacks | three structures that must agree; callbacks that change the table during a walk |
| Sessions | `runtime/ext/standard/php-session.scm` | the session of the page; shared between processes: files, locks, modification times | `session_start`, `session_write_close`, `session_destroy`, `session_id`, `session_regenerate_id`, garbage collection, the save at the end of a page | processes interleave between open, lock, size, read, truncate, write, unlink; kills; `flock` waits |
| Request cycle | `webconnect/fastcgi/fastcgi.scm`, `webconnect/webconnect.scm`, `compiler/driver.scm` (`run-url`), `runtime/php-runtime.scm` (reset) | request variables, startup, shutdown and end-of-page functions, output buffers | accept, run the page, 404 page, error page, flush, reset | what one page leaves must not reach the next, whatever fails on the way |
| FastCGI process pool | `webconnect/fastcgi/c-fcgi.c` | the parent's count of its children, signal handlers | fork, wait, signals | wait races with signals; a child begins with the parent's handlers |
| Output buffering | `runtime/output-buffering.scm`, `runtime/ext/standard/php-output-control.scm` | two stacks: ports and callbacks | `ob_*`, `flush`, the flush at the end of a page | callbacks that open and close buffers while they are flushed, or fail |
| Includes, parse cache | `compiler/driver.scm`, `compiler/include.scm`, `compiler/evaluate.scm` | included files, `*PHP-FILE*`, kept parses | `include`, `include_once`, the start of a page | files change under a worker that lives for many pages; files with one text share one tree |
| Errors, try stack | `runtime/php-errors.scm`, `compiler/evaluate.scm` | try stack, stack of arguments | try, throw, call, return, break, exit | the stacks lie beside the stack of the program, which unwinds without them |
| Numbers | `runtime/opaque-math.c`, `runtime/pcc_snprintf.c` | none | arithmetic on longs and floats, comparison, floats as text | results that do not fit; carries, and a buffer of 80 digits |
| Apache modules | `webconnect/apache1/` (C and Scheme), `webconnect/apache2/` a copy for another interface | configuration of directories; request parameters; the runtime between requests | directives, merging, parsing of queries and forms, running a page | bodies that arrive in pieces; requests that fail half way |
| Bundled web server | `tools/libwebserver/`, used by `webconnect/micro/microhttpd.scm` | clients, their sockets, what they have sent and still get, temporary files | select, accept, recv, hand on, send, delete | one thread; polls, partial sends, resets, `errno` |
| Natural order | `runtime/ext/standard/strnatcmp.c` | none | the comparison of `natsort` | whether it is an order |
| Random numbers | `runtime/ext/standard/mt_rand.c`, `php-math.scm` | the words of the twister, how many are left | `mt_srand`, `mt_rand` | words made a batch at a time, in place |
| SHA-1 | `runtime/ext/standard/sha1.c`, `php-sha1.scm` | block, length in two words | reset, input, result; digits | padding at every length of a message |
| SQLite encoding | `runtime/ext/sqlite/encode.c`, `php-sqlite.scm` | none | encode, decode | escapes, room in the buffer |
| Global environments | `runtime/environments.scm`, `runtime/php-hash.scm` (internal indexes) | tables of variables, index vectors into them | lookup, bind, reset | an index must not outlive the table |
| Objects, functions, constants, ini entries, resources | `runtime/php-object.scm`, `runtime/signatures.scm` and others | registries | define, look up, reset | little: sequential registries |
| Front end, compiler passes, evaluator, driver, debugger, other extensions | the rest of `compiler/`, `runtime/ext/`, `tools/` | syntax trees; handles of C libraries | translation; I/O | recursion over data, external systems |

The core of the system is Scheme. Most of its C is either bindings or code from elsewhere (an
`snprintf`, a twister, SHA-1, the support library of libwebserver, a second copy of the Apache module), so a count
of C lines says little about how much of the system's logic is modelled.

How they meet: the front end of a worker builds the request variables as PHP arrays and
calls `run-url`. That runs the startup functions (with `session.auto_start`, one of them opens
the session), the script under a `try`, the shutdown functions, the flush of the output
buffers, and `reset-runtime-state`, whose end-of-page functions save the session before the
common reset clears the superglobals. Workers are single-threaded processes; what they share
is the file system: the session files, and `flock` on them. Arrays are shared between
variables of one process by the counter cell and nothing else.

What makes each component correct:

* arrays, between variables: assignment copies. Every variable behaves as if it had a value of
  its own, and only elements bound by reference are shared;
* arrays, one table: chains, list and size agree; both directions of the list agree; each
  operation does to the value what PHP says; a walk meets every entry that stays, once;
* sessions: a file is locked by the page that works on it and nobody else, whatever leaves a session
  call; no saved visit is lost while the file stays in place, and every page gets its lock;
* request cycle: a page begins as the first page of a new process would, no lock survives its
  page, every request is answered;
* process pool: the parent neither forks one child too many nor waits for nobody, and a parent
  that is told to end tells its children;
* output buffering: what a page says comes out once, in order, and the end of the page is reached;
* includes: a file runs with the text it has, once if it says so, and the cache stays bounded;
* try stack: every running `try` has its entry, and an exception goes to the innermost `try`
  that wants it;
* numbers: a result is exact or it is a float, and a float only when it has to be;
* Apache modules: the parameters of a page are those its client sent, and what is left in the
  runtime by a request that came to nothing is taken out by the next page;
* bundled web server: requests are handed on whole, answers sent byte for byte, temporary files
  removed, and no peer keeps the one thread from the others but one that stops reading its answer;
* natural order is an order; a binary string comes back from SQLite as it went in; a float's text
  is the float rounded; random numbers are those of their seed; a digest is that of the whole message.

`PROJECT.json` lists every component with what is modelled of it, and under `hazards` each
place of the code that is hard to test with the properties that cover it.

## 2. The modules

```
ArrayValue        the value of one PHP array and what each operation does to it
  PhpArray        abstract: every variable holds an array value of its own
  LazyHash        php-hash.scm: shared entries and counter cells    -- implements PhpArray
  HashTable       php-hash.scm: chains, list, growth, walks         -- implements ArrayValue
SessionFiles      php-session.scm: processes, files, locks
  WebWorkers      fastcgi.scm + run-url + reset, around SessionFiles
FcgiPool          c-fcgi.c: parent, children, signals
OutputBuffer      output-buffering.scm: ports, callbacks, the flush at the end of a page
TryStack          php-errors.scm, evaluate.scm: entries of tries and calls
Includes          driver.scm, include.scm: files, *PHP-FILE*, the parse cache
OpaqueMath        opaque-math.c: longs and floats
ApacheRequest     apache_request.c, apache_multipart_buffer.c: query and body to parameters
ApacheModule      mod_pcc.c, apache.scm: directives, and the runtime between requests
MicroServer       libwebserver: the select loop, clients, streams
NaturalOrder      strnatcmp.c
SqliteBinary      encode.c, php-sqlite.scm
FloatText         pcc_snprintf.c: floats as text
MtRand            mt_rand.c
Sha1              sha1.c, php-sha1.scm
Powers            of a number, as a function: for FloatText and Sha1
Induction         over the naturals, and recursive functions: lemmas for the proofs
LazyHashProofs, HashTableProofs                 theorems of the arrays
SessionFilesProofs                              theorems of the sessions
WebProofs                                       ... of WebWorkers and ApacheModule
RuntimeProofs                                   ... of FcgiPool, Includes, TryStack, OutputBuffer
MicroServerProofs                               ... of MicroServer
CalculationProofs                               ... of OpaqueMath, NaturalOrder, SqliteBinary, MtRand, Sha1,
                                                and FloatText
MC*               instances for TLC: constants, views, symmetry, and a choice of what moves
```

### ArrayValue, PhpArray

An array value is a record: `order` (the keys along the entry list), `elem` (what is under
each key; a member of `Boxes` is a container that was made a reference), `cur` (the array
pointer, `AtEnd` is the sentinel) and `max` (`maximum-integer-key`). The operators are the
operations of `php-hash.scm` on that value: `SetElem` appends at the tail and makes the new
entry current when there is none, `RemoveKey` moves the pointer off the removed entry,
`PopTail` lowers the maximum only if the tail had it, the sorts clear and insert again. A
sort's comparison is the script's, so its result is any permutation. `PhpArray` gives every
variable such a value and is the promise PHP makes; it is an abstraction and maps no code.

Keys are `0 .. MaxInt` and some strings. Negative integer keys, and what `[]` does past the
largest integer, are not modelled. (Nor is `PHPNUM_COMPARE_LONG` of `php-hash.scm:1025`, which
compares two keys by a subtraction that may overflow.)

### LazyHash

`tab[v]` is the table structure a variable holds: which store of entries and which counter
cell it uses, its pointer and maximum. `store` and `count` are what can be shared. `Assign` is
`copy-php-data` (a new structure over the same store and cell, one more in the cell); the table
the variable held before becomes garbage and is *not* uncounted. `Forced` is `%force-copy!`;
`Mutate` is an operation that forces and then writes, and each PHP operation is an action:
`Insert`, `Push`, `InsertRef` (`$a[k] =& $r`), `BindRef` (`$r =& $a[k]`), `WriteRef`, `Remove`,
`Pop`, `Clear`, `Sort`, `Touch` (lookups that force and `current()`), and `Reset`, `End`,
`Advance`, `Prev`, which do not force. Stores and cells that no variable uses may be allocated
again: the collector.

### HashTable

One table at the level of entries: `buckets`/`chain`, `head`/`tail`/`next`/`prev`, `cur`,
`size`, `threshold`. `Put`, `Link`, `Expand`, `Take`, `LeaveList`, `Cleared`, `Separated`,
`Resorted` translate the functions of `php-hash.scm` pointer by pointer, including that a
removed entry keeps its own pointers and that a cleared table keeps its threshold.
`Along` is a loop over a list or a chain; it, and the loops of growth and separation, are recursive functions.
`StartWalk`/`WalkOn`/`EndWalk` are `php-hash-for-each` and its kin, with every operation
possible between two of their steps: a callback. Three code facts the model has kept:
`size > threshold` is tested before the insertion; clearing goes back to the default bucket
count; separation keeps the bucket count. (The comment at `runtime/php-hash.scm:110`, which calls the
maximum key one past the end, is stale: it is the largest key.)

### SessionFiles

One step per call that another process can see the effect of: `Start` (`fopen` "a+"), `Lock`
(`flock`), `Measure` (`file-size`, by *name*), `Collect`/`Unlink` (garbage collection: look at
the age, then delete by name), `Read`, `Truncate`, `Write` (write and update the modification
time, unlock, close), `Forget`, `Destroy` (unlock and close) and `DeleteFile`, `ChangeId`, `EndPage`, and
`Crash` and `Expire` for the system. `StartLost` is a failed `fopen`, after which the code goes
on with an active session that has no file. `ReadFails` is the read after the file was gone
when its size was asked: the size is -1 and no string of that length can be made.

The script is one that counts visits in `$_SESSION`, so the content of a file is a number; its
length is taken to be that number too, which makes a size that belongs to another file tell.
`saves` is a history variable: what the number in a file has to be.

Script code runs inside session calls: the error handler of a warning (a failed open, a cookie or cache limiter
that comes too late), `__wakeup` in what is read and `__sleep` in what is saved. Where it exits, fails or
throws, the call is left in the middle: `StartLeft`, `MeasureLeft`, `ReadLeft`, and `WriteLeft`, which comes between
`ftruncate` and `fwrite` (`php-session.scm:224-228`) and leaves the file empty, open and locked. They are enabled
by `MayRaise`. A page that goes on after that has not read its session, or not all of it, and its next save
writes over what was there or leaves nothing of it: `NoLostVisit` is about instances without `MayRaise`,
the locks (`LockIsCurrent`, and `LeftLocked` of WebWorkers) are about both.

`ChangeId` changes the id and leaves the open file under the old one (`php-session.scm:481`), so a page that
calls `session_regenerate_id` saves where the next one, which comes with the new id, does not look. That is in the model, and
no property is about it, since no line of the repository says more than that the id is updated.

Not modelled: handlers set by the script, session functions called by that script code from within a session call,
headers of the cache limiter, changes of the save path within a page.

### WebWorkers

Extends SessionFiles with the phases of a request: `Accept`, `AutoStartSession`, `RunPage` or
`NotFound`, the script (`UseSession`, `Register`, `EndScript`), `RunShutdown`, `FlushAll`,
`ResetSession` and `CommonReset`, and `Kill`. Shutdown functions and output callbacks are script too and use
sessions like the page does (`ScriptRuns`). `EndScript` is what ends the script between two session calls; `LeaveCall` is the
exit, error or exception inside of one, which goes to a catch of the script, to the `try` of `run-url`, or, where there
is none, out of `run-url`. `escaped` is a history variable: an error has
left `run-url` since the last reset. That happens in four places: a missing page
(`file-not-found` is raised after the startup functions and before all that undoes them), an
error in a shutdown function or in an output callback (both run outside the `try`), a
startup function whose session cannot be read or is left, and a `__sleep` that raises in the save at the reset
(`driver.scm:209` is outside the `try` as well).

### FcgiPool

`pcc_fcgi_spawn` without the Windows branch. The parent is `up`, in its handler (`restored`: the
old actions are back; `told`: the group has its TERM) or `gone`; a child is `newborn` (it puts the
handlers back one by one), `serving`, or a `zombie` until it is waited for. `mail` and `pending`
are the signals on their way. `CatchInChild` is a signal that finds a child before it has put
the parent's handler away: the child then tells the whole group, the parent included. `ForkFails`
and `CutShort` are the two ways in which a parent goes without telling: they are in the model,
and `ToldAll` speaks of a parent that came through its handler. `ChildEnds` is the loop of
`fastcgi.scm` at its request limit.

### OutputBuffer

`ports` and `callbacks` are the two stacks, `work` the stack of what the running output functions
still have to do. A callback of kind `busy` is a function of the script that uses output functions
itself between `StepCall` and `CallbackReturns`; a `bad` one is undefined or raises. What `echo`
writes is numbered. Two things the model shows of the code: the flush at the end of a page goes on
as long as there are buffers, so a callback that opens one each time keeps it going for ever
(`FlushEnds` excepts it by `meddled`); and a callback that fails at that point leaves `run-url`
before the stacks are popped or reset, so the next page begins with the buffer. The model ends
there (`leaving`); `WebWorkers` and its run `web_reset` take up what follows for the worker.

### TryStack

`frames` is what is really running, `tries` and `funcArgs` the two stacks the code keeps beside it.
Every `try` and call has a number, so an entry can be told from another. `EndTry`, `Caught` and a
call's `Return` pop; `BreakOut`, a `Return` out of a `try`, `AbandonPage` and exceptions that
pass through do not. `CaughtTooLate` is an entry whose `try` is over. Details that are left out:
which of the clauses of one `try` is run when several match (the list is kept in reverse, so the
last one), levels of errors, handlers of scripts except that one which returns lets the script go on.

### Includes

A page runs a file in a worker that lives on. `Search` looks in the directory of the page and in
that of `*PHP-FILE*`; `Parse` finds the kept tree by the digest of the text, and empties the table
when it finds it over its limit, whatever is asked for. Because trees are found by text, two files
of the same text share one tree, and its locations, `*PHP-FILE*` and so the second directory of
the search are those of the file that was parsed first. `RestoreIncludePath` also forgets what
the page has included, and `include_once` then runs it again: the property says so with `restored`.
Empty files, files in libraries and absolute names are not modelled.

### OpaqueMath

A calculator: one operation after the other on an accumulator, with longs of `-Half .. Half - 1`
and floats that hold whole numbers exactly up to `Mant`. `OverflowFlag` selects between the
multiplication of i386, which looks at the processor's flag, and the portable one, which compares a
float product with the bounds as floats. The division of the least long by -1 and the
remainder of it trap, as they do in C; converting a float beyond any long yields any long. With
64-bit longs the portable product is *not* always right: the float product may round down below
the bound while the long has wrapped (89547301328687144 * 103). In the run
every long is exact as a float, as 32-bit longs are in a double; section 4 says what is proved
for all widths.

### ApacheRequest

`posted` is the form as a browser sends it, `input` the buffer with what is still on the wire and
`r->remaining`, `parms` what has been made of it. A text consists of `x`, `cr`, `lf`, dashes and the
boundary. `fill_buffer`, `next_line`, `get_line` and `my_memstr` are the functions of
`apache_multipart_buffer.c`; the actions are the steps of `ApacheRequest_parse` and its two
parsers. A read gives what has arrived (`net = "short"`) or all that was asked for (`"whole"`).
Kept as in the code: at the end of the data `fill_buffer` leaves out as many bytes as the boundary
has; a line that did not come with one more read is no line, so a short read may lose headers or
the rest of the parts while the request is still reported as good; the hack for Mozilla's empty
files takes two bytes off `remaining`; bytes behind the data in the buffer are old and may look
like a boundary (a choice in `CheckBareFile`).

### ApacheModule

The directives of an outer and an inner directory (`Configure`), their merge, which webapp
serves a name (`Fixup`), and requests one at a time as `mod_pcc_mutex` has it. `runtime` holds the
numbers of the requests that its superglobals, files, include paths and headers are from.
`general_handler` puts in the include path and the files before it is known whether the request is
good and the page there, so `Declined`, `Escaped` and a bad request leave them (the comment at
`webconnect/apache1/apache.scm:223` asks for care about just that). Seen in passing: `*response-code*` is set
when the module starts and not after a request, unlike `webconnect/fastcgi/fastcgi.scm:275`;
`parse-get-vars` puts the parameters of a body into `$HTTP_GET_VARS` too; the merge takes the nearer directory's extensions even if they
are the default; `try_lib_index` returns 0 for a missing index where its comment says 1.

### MicroServer

One thread: `Select`, `Accept`, then `Visit` each readable client of the list and take it all the way:
`Receive`/`Poll` until the request ends, `Handle` (or `Refuse`, `NoRedirect`, `NoStream`), then
`Skip`/`Send`/`AtEnd` stream by stream, `Delete`. The other ends are actions as well: they connect,
send pieces, read, close or reset. A request is measured in units: a head, the blank line, a body;
`due` and `wire` are the units of the answer with their number. The client list is a set, since
within a pass any order is possible. `Polled` is the decision whether a request has ended, kept in
the code's order of tests, with `errno` as the earlier call left it: `recv` returns 0 for a closed peer and does not
set it. Taken for granted: headers fit the buffers (`readsize` counts only while a range is
skipped, a header ends within the first 796 bytes), files named with `web_client_useoutput`'s
length mode open. Left out: failing allocations and variables in output.
Where the code counts tries without limit, the model stops at `Timeout`, since no test tells more from that. Sending has no limit
at all: `output_client` tries a send that finds no room again (`client.c:595-605`) and `server.c:524` calls it until
the answer is out, so a peer that stops reading in the middle keeps the thread. `EveryoneServed` says that this is the only
way to keep it: it assumes nothing of the peers but that none is `Stalled` for ever. `NoRedirect` is what is
answered when the file for the output cannot be opened: no page is run, and the status is 206 if a range was asked for, 200 if not.

### NaturalOrder, SqliteBinary

`strnatcmp0` with its two comparisons of runs of digits, a `Round` of its loop at a time; the code does
not skip the leading zeros that its comment speaks of, and neither does the model. `SqliteBinary` has `Bytes` values of a
byte instead of 256 and a string that grows byte by byte; the sums that bound the room are the
code's with 256 replaced. As soon as a byte has more than five values there is an offset that is
no quote, so `Offset` always exists.

### FloatText, MtRand, Sha1

`FloatText` is what `phpnum_to_string` makes of a float in the three formats that go through
`pcc_snprintf` (the `%.*G` of `echo` is libc's own). A float is `num / 2^bits`, which keeps
its products with 10 exact, as the code's doubles are only for numbers of moderate size and few
bits; `pcc_cvt` makes the digits, rounds them in place (`Rounded`, with the carry that moves the point), and `pcc_gcvt`, `conv_f` and `conv_e` lay them out. Left out: widths and
signs asked for, infinities, and wholes longer than the buffer, whose middle digits the code
drops. Two things seen: the exponent of 0 in the e format is -01, and `convert-float` of
`php-strings.scm` asks for at least one decimal, which is `Convert`'s guard. `Reading` is no code of the
repository: it reads a text back, one character at a time, for the property to compare with the number.

`MtRand` is the twister with its loops over the words, `Batch` and `Middle` for 624 and 397 and
words whose first bit is `Top`. What bit operators do is left to constants (`BitXor`, `BitAnd`, `BitOr`: words
from words), which the instance takes from the module Bitwise: no property depends on more. `Reloaded` says for each new word which of the words it is made
from are old and which are of the same batch, as the loops over `p0`, `p2` and `pM` have it.
`randomMT` shifts its result except where the reload returned it, and `randomMTrange` shifts it once
more: but for the first number of each batch, the values drawn lie in the lower half of the range asked for.
`FollowsSeed` says that each number is its word or half of it, in the order of the recurrence and across the batches;
that it is not the word, as the head of the file has it, is the finding of `rand_words`. The instance is in `MCMtRand`,
which `MCRuntime` extends.

`Sha1` takes a message in pieces through `SHA1Input` to `SHA1PadMessage`. What the hash
function makes of a block is left open; the digest is taken for the blocks that went in. Octets have
`OctetBits` bits and the two words of the length are as short as four of them, so messages reach the
carry between the words and the length that no longer fits. `HexOf` is `unsigned->string`.

## 3. What TLC checks

| Run | Instance | Shows |
|---|---|---|
| `runtime` | LazyHash with 2 array variables, 1 reference variable, 1 box, keys 0 and 1; pool of 2 children out of 3 processes; 2 buffers; 3 nested tries or calls; 2 directories with one file each and 4 texts; longs -8..7; 70 strings of up to 3 characters; strings of up to 5 bytes of 6 values; 150 floats, up to 7 digits of them in a buffer of 6; 16 numbers after each of 3 seeds, in batches of 5; messages of up to 130 octets of 2 bits | lazy copies implement arrays that are copied on assignment; counts and signals of the pool; output once and in order; entries of tries; files run with their text, once, cache bounded; exact results; natural order is an order; binary strings come back; texts are rounded numbers; random numbers follow their seed; padding and length of what is hashed |
| `requests` | HashTable with keys 0, 1, 2, five entries, 2 buckets growing to 4; forms of two fields with values that look like boundaries, buffer of 7; two directories, 2 directives, 3 requests; 1 worker, 2 ids, kills, missing pages, failing shutdown functions and callbacks, session calls that are left, auto start | chains, list and size agree in both directions; walks; each operation implements ArrayValue; forms arrive as sent, in whole and short reads; what is left in the runtime between requests of Apache; a session call that is left keeps its lock with the worker, an idle worker is clean unless an error escaped, its use of sessions is one SessionFiles allows |
| `processes` | SessionFiles with 2 processes, 1 id, 4 files, up to 2 visits, garbage collection, crashes, failing opens; the pool; the buffers; fairness | `IInv`, exclusive locks, no visit lost; every page gets its session; the pool waits for its dead and comes down; the flush of a page ends |
| `web_live` | 2 workers, 1 id, fairness, kills; missing pages, failing shutdown functions and callbacks, and session calls that are left, in one of them | every request is answered, unless an error leaves a worker idle with the session again and again |
| `microserver` | 2 clients, 2 descriptors, buffers of 2, window of 1, 3 polls; a request with a body and a range, one without an end, one that may stop the server; one client may leave; calls may fail | requests are handed on whole, answers sent exactly, temporary files owned, descriptors not taken for others; everyone is served as long as no peer stops reading for ever |
| `lazyhash_push` | 1 array and 1 reference variable | violation: an element made by `$r =& $a[0]` is replaced by `$a[] = x` |
| `session_again` | 1 process, 2 ids, a page may open several sessions | violation: a second session begins with what the first left |
| `web_reset` | 1 worker, 1 id, missing pages and failing hooks | violation: the worker takes the next request with the last page's cookie |
| `microserver_silent` | as `microserver`, but a peer may close before it has sent a byte | violation: it is polled for ever |
| `try_stale` | tries and calls two deep | violation: a `return`, or the end of the page, leaves the entry of its `try` |
| `rand_words` | 16 numbers after each of 3 seeds, in batches of 5 | violation: a number is half of its word |
| `sha1_hex` | octets of 4 bits, digests of 2 | violation: a digest with a small octet has too few digits |

`MCRuntime`, `MCRequests` and `MCProcesses` put components that share no state side by side. A
behaviour has a `focus`, chosen at the start: that component moves and the others stay in one of their
initial states. Nothing is said about such components together; it is one exploration instead of
several. Components that do share state are composed in modules of their own (`WebWorkers`).

Bounds and why they are enough.

* *LazyHash.* Two variables see every kind of sharing between two tables, and a counter above the
  number of sharers, by garbage. Two keys with one entry before and one after the removed one are needed for
  the pointer: three present keys add nothing that order and pointer do not show with two.
  `MaxCount` bounds only `Assign`. The view forgets the names of stores and cells and what
  garbage holds; allocation is a CHOOSE among unused identities, so two states with one view
  have the same future. Variables are interchangeable, hence the symmetry, in a run without fairness. The theorems below
  remove these bounds.
* *HashTable.* Keys 0 and 2 collide in two buckets and part in four, so one growth with a
  collision happens; three present entries and two removed ones are enough for a walk to hold
  a removed entry whose neighbour is removed too. `MaxSize` bounds growth.
* *SessionFiles.* Two processes give every pairwise race; a third adds only more waiters. Four
  files for two processes: one in place, one open in each, and a spare, so creation is never
  blocked. `MaxVisits` is 2: two pages that both read an empty file write 1 where two visits were saved, which
  cannot be seen where the counter ends at 1. The view leaves out what unused files hold, which is
  overwritten when they are used again; the steps that fairness speaks of are the same in states with one view.
* *WebWorkers.* What a page leaves in its worker needs one worker and two ids (the id of the
  last request and that of the next); waiting needs two workers that contend for one id. Garbage
  collection is a step within the opening of a session, which is in `processes`; the workers' instances leave it out.
* *FcgiPool.* Three processes for two children: one may be a zombie, or newborn, beside two
  others. TERM and INT suffice from outside: QUIT differs from INT only in its turn among the handlers.
* *OutputBuffer.* Two buffers and two nested calls: a callback that flushes runs while its
  own buffer is flushed. Two echoes can be exchanged.
* *TryStack.* `Derived` is a `Base`, three things running: a stale entry between two live ones, or
  above both. The theorems remove the bounds.
* *Includes.* One name in two directories makes the search go wrong, one kept tree the table overfull, three files in
  the middle of running a cycle by way of another file.
* *OpaqueMath.* All 16 longs with each other; results up to 64, beyond every product of two longs but
  the last, go on into the next operation.
* *ApacheRequest.* The buffer holds seven characters and values have up to seven: boundaries and line
  ends fall on every place of the buffer. *ApacheModule.* Three requests: one that leaves, one that
  finds or leaves more, one that ran to its end between or after.
* *MicroServer.* Buffers of two and answers of one to four: sends that take nothing, a part and all;
  two clients on two descriptors, so a number is used again in the pass that closed it. Three polls
  are the least that tell "some" from "as many as the server waits".
* *NaturalOrder.* Up to two characters of a space, digits, an upper and a lower case letter, three of
  digits: transitivity over all triples of 70 strings. *SqliteBinary.* Six values of a byte, five bytes: the escape,
  the quote, 0 and three plain ones, at every offset.
* *FloatText.* Six digits of room and seven asked for: carries through all digits, out of the first, and
  at both ends of the buffer; whole numbers, and fractions down to 2^-14. *MtRand.* 16 numbers are more than three batches;
  with `Middle` 3 of 5 both loops of the reload run. *Sha1.* 130 octets of two bits pass the 256 bits
  that two words of four bits count; blocks of 8 end on every place.

Fairness. A process that runs goes on (`WF` on its steps): nothing in those steps waits. `flock`
gets *strong* fairness: the kernel queues the waiters, so a lock that is let go again and
again reaches each of them. A script comes to its end, and so do its shutdown functions and output callbacks (`SF` on
`EndScript \/ RunShutdown \/ FlushAll`): PHP scripts are assumed to terminate, whatever they do with sessions meanwhile. A page saves (`Ending`): the
end-of-page functions run. Requests need not come, processes need not crash. In the pool the
system runs every process and delivers signals (`WF`), and `wait` returns ended children by their
age, so none is passed over for ever (`SF`). Output functions go on, and a callback, which is script,
comes to its end (`SF` on `CallbackReturns`). In the bundled server the one thread goes on (`WF`), and nothing is assumed of the
peers: they need neither send, read nor leave. That a peer reads on is a hypothesis of `EveryoneServed` itself.

TLC looks for deadlocks where the system always has a next step: a worker or a process of its own
(`web_live`, `web_reset`, `session_again`). The other configurations turn that off,
because their models may stop: parents and servers end, calculators trap, bounds run out. (The worker of
`requests` is the one of `web_reset`, which looks for deadlocks.)

Where shutdown functions or callbacks raise (`MayFail`), or pages are missing under `AutoStart`, an idle
worker may keep its session locked, and whoever asks for it waits until that worker is asked for another page.
`EveryRequestAnswered` excepts exactly that (`Stranded`: idle, after an error has left `run-url`, with a lock); `ResetsAll` and its
finding are about the cause. `LiveNext` lets only one of the workers have such pages, leave session calls or use sessions in its
shutdown functions (`Untroubled` is what the other does), which bounds the states and restricts no step that fairness speaks of.

Every passing property has a mutant in `PROJECT.json`: a plausible bug in the mapped code under
which that property fails. The mutated forms stand before the definitions they replace.

## 4. What is proved

`LazyHashProofs` begins with array values: every operation turns a well-formed value into one, for all
keys, values, lengths and permutations. From that it proves of LazyHash

* `SharingInvariant`: `Spec => []IInv`. `ZeroMeansSole`, which is what `%force-copy!` relies
  on, is not inductive: a separation takes one off the counter of the tables that stay behind,
  and nothing in it says by how much the counter is above zero. `IInv` adds
  `StoreIffCell` (sharing entries and sharing a counter are the same) and `CountsSharers` (the
  counter is at least the number of *other* tables that use it; it may be above, because
  garbage is not uncounted), `TypeOK`, and `ViewsWellFormed` (a variable's order, elements and pointer
  fit together);
* `ZeroIsSole`, `TypeCorrect`, `WellFormedViews`: its consequences;
* `Refinement`: `Spec => ImplementsPhpArray`, for any number of variables, keys, boxes and
  copies. Initial states map to initial states and each step to the action of the same name
  or to a stutter (`Touch` changes no view). The proof that a step of one variable leaves the
  views of all others alone is where `ZeroMeansSole` is used.

Assumptions: `ConstantsAssumption` (values, references and the absent mark are distinct; string keys are not
integers) and `LazyAssumption` (finitely many variables, and distinct marks); both are checked
by TLC on every instance.

`HashTableProofs` proves of HashTable, for any keys, hash numbers, finite set of entries and growth,

* `TableTypes`, `TableAgreement`: the two invariants of the run about the structure, after any operations;
* `WalkReachesAll` and `WalkNeverTwice`: a loop reaches every entry that is there all the time, and calls out
  for none twice, whatever its callbacks do;
* `TableRefinement`: `TableSpec => ImplementsArray`. The new table stands for the empty array, and each step does
  to the value what an operation of ArrayValue does, or nothing (separation, expansion, the steps of a walk).

All five rest on one inductive invariant, `TableInv`, with two parts.

* There is a sequence `L` of entries such that `IsTable(t, L)`: from the head along `next`, and from the tail
  along `prev`, one meets exactly `L`; from each bucket along `chain` exactly the entries of `L` that hash
  there; no key twice; the size is the length of `L`; the pointer is in it, or the sentinel. What the invariants of the run
  say with functions that follow pointers, this says with a sequence that is there (`IsPath`), and one can say
  how it changes: an insertion appends to it, a removal takes one entry out. `AlongPath` ties the two together.
* While a walk goes on, there is a path ahead of it, which meets nothing that was called out for but the entry
  held, and all that stayed and was not called out for (`WalkPath`). `WalkMissesNone` alone is not inductive: the
  entry held may be out of the table, and the next of it too. A removed entry keeps its pointer, and the
  entries in front of it in that path are changed with those in the list: nothing more about entries outside of
  the table is needed. That a new entry is neither ahead nor called out for is the garbage collector's part (`Garbage`).

Growth (`Expand`, which reuses the cells it is walking), separation and the sorts are loops over many entries. They are
recursive functions in the model, and what they keep is proved with `RecursionWithin` (below): after `n` steps the
chains and the list are those of the first `n` entries (`ReinsertFills` for separation and the sorts). Assumptions: `TableAssumption` (finitely many entries, which are numbers so
that the least unused is a choice; the sentinel is none of them; hash numbers are natural, a new table has a bucket) and
`ConstantsAssumption`.

`SessionFilesProofs` proves of SessionFiles, for any processes, ids and finite set of files,

* `SessionInvariant`: `Spec => []IInv`. `NoLostVisit` says that a file in the save path holds
  what was saved into it unless it is just being written. That is kept only because the page
  that writes a file knows every earlier visit, which is so because it read the file with the
  right size, while nobody else was writing. Each clause of that sentence is a conjunct of
  `IInv`: `LockIsCurrent` (one process past `flock` per file), `OneName` (no file has two
  names), `OpenedByName` (an open file that still has a name is under the id that was used to
  open it, so the size asked by name is its size, and a page that has read knows every visit),
  `HalfWritten`, `OpensEmpty` and `StepsFit`;
* `LocksAreCurrent`, `VisitsAreKept`: its consequences. `VisitsAreKept` assumes `~Reopen`, since a
  page that opens a second session starts from what the first left (see section 5), and `~MayRaise`, since one that
  was taken out of a session call does not know what it saves.

Most actions open, lock and write nothing; lemma `Local` deals with those, `Closing` with those
that let a file go, and `StartStep`, `LockStep` and `TruncateStep` with the rest. The
assumption is `SessionAssumption` (finitely many files, distinct marks).

`WebProofs` proves of WebWorkers

* `WorkersUseSessions`: every step of a worker is a step of SessionFiles or leaves its variables
  alone; what is to be seen is that the common reset comes only when no session is active, that
  is, after the end-of-page function has saved it. Hence `WorkersInvariant`, `IInv` of the workers;
* `LeftCallsLocked`: `WSpec => []LeftLocked`. Whatever leaves a session call, the lock of the file stays with the
  worker, and the worker has that session active. This follows from `LockIsCurrent` and `StepsFit`, which hold of the workers by
  `WorkersInvariant` with `MayRaise` too, and from `WInv`, which tells what an idle worker may have kept;
* `IdleWorkersClean`, a part of `WInv`, which is inductive with what the workers' steps keep.

and of ApacheModule, for any directives and number of requests, `PagesStartClean`:
`ApacheSpec => []LeftByTheUnfinished`. Alone it is not inductive, for it speaks of a moment: when a page
came to its end. `ApacheInv` says all the time that whatever is in the runtime is from requests *since* the
last page that came to its end (`Since`), and that a page has in it what its own request put there:
what `PageDone` takes out, it takes out whoever it is from.

`RuntimeProofs` has four parts.

FcgiPool: `PoolInv` is types, `CountsChildren` and `ToldAll`, which is inductive as it
stands once the count is a cardinality that `Fork` and `Wait` change by one (finite sets:
`PoolAssumption` has finitely many processes). `ToldAll` holds through a fork in the middle because
a parent in its handler forks no more, and a child that ends is no longer to be told.

Includes: `IncludesInv` adds `RunningAreIncluded` (a nested file is marked before anything in it
runs, unless the page forgot), which is what `OnceIsOnce` needs. `TextsAreCurrent` and
`CacheIsBounded` hold for any files, texts and limit.

TryStack: `RunningHaveEntries` alone is not inductive, for an entry could go when an outer
one is popped. `InOrderOfAge` (entries and what runs lie in the order in which they began) gives that
the innermost `try` that runs has the topmost live entry. `GoesToInnermost` then is an action
property: an exception goes to the innermost `try` that wants it as long as no entry is stale, and a
stale entry may only take it further out.

OutputBuffer: `FlowInOrder` is `BufferSpec => []OnceInOrder`: what scripts and callbacks write reaches
the page once and in its order, through any number of buffers and any nesting of flushes and callbacks,
unless a callback fails, or does something to the stacks itself (`meddled`: then a buffer that a running flush
is about to empty or to pop may be another one). `BufferInv` is the invariant, for as long as nobody has meddled:

* `BufferTypes`: there are as many callbacks as buffers, and no port is used twice;
* `SortedOn(Levels, Depth)`: what is in the page, in the buffers from the lowest up and underway in
  `work` is in order, on each level and from level to level;
* `Counted`: what has been said is all there, or was cleaned;
* `Planned`: each move that `work` still has to make goes one level down, fits there after what is
  there, and leaves nothing that counts in a buffer that is popped next.

That each step keeps the flow sorted and counted is a lemma about moving a piece of a sequence from the
top level to the one below (`Flow` is a recursive function over the levels; see `Induction` below).

`MicroServerProofs` proves `ServerInvariant`, `ServerSpec => []ServerInv`, for any clients, descriptors, requests, answers
and sizes of buffers, and from it the four invariants of the run: `ServedReadable`, `FilesAreOwned`, `AnswerSent` and `HandedWhole`
(`SentIsAnswer`, which is what the client gets, is the longest; the action property `HandedOnWhole` follows
with `AskedLength`). `ServerInv` consists of

* `ServerTypeOK` and `LoopInv`: each listed client has a socket of its own and nobody else has one, and a
  bit of the set that `select` returned which is set is that of a listed client that has something to
  read, until that client is visited. That is what makes a number that is used again within a
  pass harmless: the bit is looked at only for clients that were there;
* `OnlyCurrent`: whoever is not being served is as `add_client` made it, so a request is taken from its first
  byte to the last of its answer without another in between;
* `AskedLength`: the server takes no other length than the one that the client sent;
* `OutputInv`, `FilesInv`: the streams behind the first are untouched, the first is open exactly where the last write
  ended, and the files on disk are the temporary ones of the streams that are left, but for those lost to a failing call;
* `AnswerInv`: at every moment of skipping and sending, what is on the wire and what the streams still have is what is due.

The server works through lists of streams, so these are statements about sequences whose first element is taken
off or whose end is added to; `Without`, which takes out the streams that cannot be opened, is a recursive function.

`Induction` is what makes such proofs possible. The induction theorems of the library are about an operator given as
an argument, which the provers cannot instantiate. Here a predicate is the *set* of the numbers that satisfy it, and
`NaturalInduction` is derived from a theorem of the library without such an argument, that strict inclusion of
finite sets is well-founded. `RecursionWithin` (a function given by its value at 0 and by the next from the last
exists, and what each step keeps holds at every number), `RecursiveFunction` (its case of one type) and `SameRecursion` (there is only one) follow.

`RecursionOnNat` puts the functions for all lengths together to one on the naturals, and `CourseOfValues` is for
functions whose value may come from all values before (the words of a batch, the recurrence of a generator).

`CalculationProofs` has six parts, for every width of numbers, octets, words, batches and buffers.

OpaqueMath:

* `SumsAndDivisions`: the sign bits of `phpadd` and `phpsub` tell an overflow exactly (`WrapIsLong`,
  `WrapOfLong` and `WrapBeyond` say where a sum of two longs ends up: it is itself, or one
  modulus away and so of the other sign), a division that yields a long is exact, remainder and quotient agree;
* `AllRightWithFlag`: with the processor's flag all of `ResultsRight`. Of the portable
  multiplication nothing of the kind can be proved, because it is wrong for some widths (section 2).

`MathInvariant` is that and that operands and accumulator are numbers in range.

NaturalOrder: `ComparisonsAreAnOrder`, for any strings of characters other than 0, case folded or not. Every comparison
in the code, of runs and of strings, is the first of a row of signs that is not 0 (`Leads`). What such a sign
says of three strings follows from what the signs of the row say, place by place (`LeadComposes`), and one round
composes (`RoundIs`) because whether a run is a fraction depends on its first character: of three
strings with first digits `a`, `b`, `c` either none is a zero, or the comparisons with a zero in them are settled by the
first digits, or all compare as fractions. Runs compared as numbers
compare by their lengths first, so that rows are left for runs of one length.

SqliteBinary: `ColumnsKeepBinary`, for any strings and numbers of bytes. Reading gives back each byte because
an escape is never left open at the end of one (`DecodesWhatWasEncoded`), and the code has neither 0 nor quote
(`EncodedPlain`). The room is enough by a count: each place of the string costs an escape at no more than three offsets
(`HitIs`), so the `Bytes - 2` offsets together cost no more than three times the length, and the cheapest of them no more than its
share (`CheapOffset`). That is the sum in the comment above `sqlite_encode_binary`, for all lengths.

MtRand: `NumbersFollowSeed`, for any sizes, seeds and operators on words. `RandInv` says where in the recurrence of its
seed the twister is: there is a number `k` of batches such that `state` is the `k`-th batch of the sequence, `left` and `next`
point to the same place of it, and the numbers drawn so far are those before that place (`At`). The step is
`ReloadGoesOn`: the words that the reload makes in place, from old ones, new ones and the new first one, are the next batch of the
sequence. It needs that the function with these references exists at all, which `CourseOfValues` gives.

Sha1: `MessagesPadded`, for any messages and pieces, and any size of blocks. `Sha1Inv` says while a message is read that the blocks
hold its octets in their places, that the two words make its length with the carry of the one into the other (`Counts`, for which
the size of a word has to be a multiple of the bits of an octet), and that it is given up exactly when the length does
not fit. `PadIs` and `EndsAre` give the blocks that padding makes, one or two, and `NumberRead` that the octets of the length
read back as that length.

FloatText: `TextsAreRounded`, for any numbers, precisions and room for digits greater than three. `TextInv` is short, as one step makes the whole
text (in exact arithmetic: what doubles lose of very large or very small numbers is no part of it); the work is in the functions that the step calls, and they are taken one after the other:

* the digits: what is made one digit at a time is the number times a power of ten, rounded down (`Made`), and because the
  next digit is at hand, rounding by it is rounding to the nearest (`RoundedIs`). Where the carry runs through all digits the point
  moves, and the digits say the same at the new place (`RoundedDigits`). `CvtE` and `CvtF` put this together for the two ways of
  asking, `LeadingZeros` and the end of the buffer included;
* the text: reading digits after other digits multiplies by ten and adds, before the point, after it and in the exponent
  (`ReadingIs` and the lemmas after it), so that a text of a sign, digits, a point, digits and an exponent says their value at a scale
  (`TextOfF`, `TextOfE`, `TextOfG`, the last for its four forms);
* both together: in the shortest form zeros are dropped from the end, and some of them are written again before the point. `ShownDigits`
  counts the digits of the result, and that count is what the property asks for.

Sequences of digits and characters are gone through by `Folded`, whose lemmas (`FoldedIs`, `FoldedConcat`) do for a
function over a sequence what induction over lists would.

The assumptions are `MathAssumption`, `OrderAssumption` (no character is 0), `BinaryAssumption` (the quote is a byte that is not
one of the first three and not the last, and there are more than five), `RandAssumption` with `WordAssumption` (bit operators make words of words), and
`Sha1Assumption` and `TextAssumption`; the other modules' are `TryAssumption`, `IncludesAssumption`, `BufferAssumption`,
`ServerAssumption`, `WorkerAssumption` and `ModuleAssumption`, as weak as the definitions need. TLC evaluates all of them.

Only model-checked: ApacheRequest, whose `FormAsSent` is about forms that a browser really sends (no boundary in a value, names that differ,
lines shorter than the buffer) and would first need these as assumptions; and all liveness and ENABLED, which are out of the
provers' reach.

## 5. Where code and documentation part

* `lazyhash_push`: `runtime/php-hash.scm:658` creates a missing element without raising the
  maximum key, so a later `[]` takes a key in use. `PushIsFresh` states the doc comment of
  `list-append-php-hash` ("using next available keys").
* `session_again`: `session_start` adds to the `$_SESSION` an earlier session left
  (`runtime/ext/standard/php-session.scm:325`).
* `web_reset`: `run-url` may end without `reset-runtime-state` (`compiler/driver.scm:197`).
* `microserver_silent`: after `recv` has returned 0, `errno` is that of an earlier call, and polls
  are limited only for clients that have sent something (`tools/libwebserver/src/client.c:157`).
  `include/client.h:76` calls `WEBTIMEOUT` a "TIMEOUT WITHOUT RECEIVING DATA".
* `try_stale`: entries of `*try-stack*` are popped only at the end of the body and in its own
  catch (`compiler/evaluate.scm:450`), not "off at the end" as the comment at `:430` has it.
* `rand_words`: `randomMT` shifts all words of a batch but the first (`runtime/ext/standard/mt_rand.c:152`), and
  `randomMTrange` shifts them again (`:157`) and scales by 2^31 - 1. So `mt_rand(min, max)` stays in the lower half of its range but for one
  number of 624. The head of the file (`:1-2`) speaks of integers "uniformly distributed in 0..(2^32 - 1)".
* `sha1_hex`: octets of a digest below 16 give one digit (`runtime/ext/standard/php-sha1.scm:53`), where
  `:48` announces a "40 digit hex string".

Differences that no property states are named where the modules are described above.

## 6. Not modelled

* The lexers, parser, compiler passes, code generation and the evaluator: recursion over trees
  of any shape, without state between steps. What the evaluator does to arrays, tries and includes is in
  the models of those.
* Global environments: the internal indexes are an optimisation of compiled code that is safe as
  long as the global table is never copied, which a comment asks for (`runtime/php-hash.scm:102`) and nothing checks.
* Objects, functions, constants, ini entries, resources, finalizers, the web variable cache and
  the containers of the runtime: registries with a definition and a look-up, reset after a page, or
  (finalizers) driven by the collector.
* Bindings of C libraries (databases other than the encoding above, XML, PCRE, sockets, curl):
  their behaviour is the library's.
* Formatting and text: the rest of `pcc_snprintf.c`, `clientinfo.c`, URL rewriting, cookies and server variables.
* `webconnect/apache2`: the code of `apache1` behind another interface. CGI: one request per process.
* The debugger, profiler, readline, the C interface and the build tools.

Within the modelled parts: nested arrays, `php-hash-append` (array `+`, which writes over keys that
hold NULL), custom hashes, negative keys and keys at the width of a long, the sort itself (a sort is
any permutation), user session handlers, changes of the save path, the table of variables of the
URL rewriter, errors' levels and handlers, what happens to children of a parent that could not fork
(nothing in the repository says what should), headers longer than two buffers of the bundled server (it seeks to the same place
for ever). The hazards without a property in `PROJECT.json` are those of this list.
