# che: a verification project

The repository holds three things: a translator from the che dialect of C to
C99, written in Rust (`src/*.rs`), a standard library in that dialect (`lib/`)
and some sixty programs in it (`prog/`). The TLA+ modules in this directory model
the parts in which state, order and concurrency make correctness hard, and the
algorithms on which most of the rest depends. Paths below are relative to the
repository.

TLC checks small instances; the modules `*_proofs.tla` hold theorems that TLAPS
proves for every value of the constants. Every module starts with a comment on
what it stands for, every property with a comment on what it says.
`PROJECT.json` maps each definition to the lines it models.

## 1. Inventory

### Concurrent and reactive parts

| Part | State | Operations | Interacts with | What is hard | What makes it correct |
|---|---|---|---|---|---|
| threads and pipes, `lib/os/threads.c` | ring buffer (`items`, `start`, `len`), `closed`, a mutex, two condition variables | `pread`, `pwrite`, `pclose`, `freepipe`, `start`, `wait` | exab, the thread samples, echo7, the web server | signals sent after the unlock, one waiter at a time; wakeups that are stale or spurious; close during a wait | it is a bounded FIFO queue; no wakeup is lost; nobody sleeps on a closed pipe; nothing is stored after the close |
| exab, `prog/exab/exab.c` | workers, nudges in the pipe, the pipe's lifetime | start, send a nudge, close, join, free; read, connect, exchange | the pipe, the network | workers that leave early; freeing a pipe that is in use | every nudge is accounted for, every request is made, it ends |
| event loop, `prog/torrent/ioloop.c` | tables of clients and of timers, descriptor sets | `process`, `accept`, `connect`, `write`, `close`, `set_timer` | the kernel; handlers of `peer.c` and `tracker.c`, called from inside a pass | the table changes while it is visited; descriptors are reused; sets go stale; a full table | new clients wait for the next select; clients do not share descriptors; input and timers are served; it crashes only when provoked |
| torrent peers and files, `prog/torrent/peer.c`, `peerproto.c`, `files.c` | stash, protocol state, next piece; files on disk | handler events, `read_request`, `request_pieces`, `readslice`, `writeslice`, `check_piece` | event loop, disk, the other peer | messages cut anywhere; left-overs of earlier attempts; pieces over several files; short last piece; a piece that arrives wrong; a directory that is missing | the download completes, what is right stays right, checks tell the truth |
| torrent tracker and metainfo, `tracker.c`, `lib/formats/torrent.c`, `bencode*.c` | a stack of open nodes; the tracker's answers so far | announce, parse, skip, create | event loop | nodes that have no end; keys in any order; a second answer | what is written is read, and nothing less; the info is what is hashed; piece arithmetic |
| `che run`, `build`, `install`, `src/build.rs`, `main_*.rs` | `$CHELANG_HOME/tmp/*.c`, `/tmp/chebuild` | write, compile, link, exec | each other, through the disk | stale or shared files | a correct project builds, and what was asked for is executed |
| `che test`, `src/main_test.rs` | `./test.out`, counters | find, build, execute | build | a failed build in between | verdicts belong to their tests, failures are counted |
| web server, `prog/webserver`, `lib/os/proc.c` | a thread per client, a process per script, descriptors | accept, route, spawn, read, wait, answer | sockets, pipes of the system, HTTP | waiting for a process before its output is read; descriptors that stay open; clients that leave; files that change | it serves unless it is provoked; answers belong to their requests |
| torrent list, `prog/tl` | `tl.list`, `tl.list.tmp`, the daemon's torrents | list, hide, unhide, rm | the disk, a daemon | a rewrite that is killed in the middle; a daemon that does not answer | what was hidden, and only that, is not listed |

### Sequential parts with state worth modelling

| Part | State and operations | What is hard | What makes it correct |
|---|---|---|---|
| project loader, `src/build.rs`, `resolve.rs`, `translator.rs:431-458` | walk over imports, order, units | loops against diamonds; dependencies first; headers passed on | topological order, no missing or double declaration, the end of the recursion |
| lexer, `src/lexer.rs`, `buf.rs` | a cursor with line and column | the longest symbol; literals without an end; positions over lines | texts are cut where C cuts them, errors have their place |
| parser, `src/parser.rs`, `preparser.rs` | tokens left, errors collected, type names known in advance | telling types from expressions; going on after an error; the end of the file | what follows the grammar is taken, what is cut short is not, one mistake is one error |
| translator, `src/translator.rs`, `node_queries.rs` | scopes, bindings, prefixes, the order of the C file | shadowing, names used before they are declared, what importers need | the C compiles, and its names refer to what they referred to |
| types, `src/types.rs` | the type of every expression | aliases at any depth; arrays and functions in use | types are C's |
| C tree and formatting, `format_*.rs`, `c.rs` | brackets, labels | brackets that the tree has forgotten; switches over strings | C reads back the same expression and the same control flow |
| Battleship, `prog/battleship` | boards, marks, the computer's search | the turn decides who has won; a search in five modes | marks are true, the winner has won, a game ends |
| LZW and Huffman, `lib/compress`, `lib/bits.c`, `reader.c`, `writer.c` | dictionaries, trees, bit streams, buffers | two dictionaries one step apart; widths that change; resets; letters that are equally rare; what comes after the last bit | decompression gives the message back; codes are the shortest |
| runes, `lib/utf.c` | tables of ranges, looked up by bisection | forms that are too long or cut short; rows of a table out of order | a rune comes back from its bytes, what is found is there |
| JSON, `lib/formats/json.c` | a tree that grows, a cursor on a text | escapes, keys that come twice, texts that stop | a value comes back from its text, what is no JSON is refused |
| regular expressions, `prog/libregexp9` | operand and operator stacks, a program, two lists of threads | lists at their limit; leftmost and longest at once; repeating what may be empty | an expression finds what it stands for, its subexpressions included |
| wisp, `prog/wisp` | heap of cells with counted references, stacks of values, a reader's stack of open lists | counts over all paths of an interpreter, errors and throws among them; dots and quotes in a reader | programs mean what their forms say, nothing in use is released, symbols get their values back |
| emulators, `prog/emu` | memory, registers, flags, call stack, timers, screen, keys | words that wrap; where the flag is also an operand; the order of keys | programs compute what the machine's manual says |
| HTTP and CGI messages, `lib/protocols/http.c`, `cgi.c`, `lib/tokenizer.c` | a tokenizer over a stream | a stream that arrives in portions; lengths against the end | what was sent is what is read |
| collections, `lib/clip` | byte queue, hash maps, vectors | growth, wrapping | *(planned)* |

### Everything else

Other file formats and text utilities, hashes, number crunching and graphics, and
the many filters of `prog/`: sequential code from input to output, or calls of
the operating system. `PROJECT.json` lists each group with
the reason it is left out.

Hazards seen there, besides those in `PROJECT.json`: `resolve.rs:20-36` does not
normalise paths, so a file under two spellings is two modules; `huffman.c:172`
follows a null child for a text of one distinct character; `wisp/mem.c:54` loses
one object at every refill; the length of an LZW word is kept in eight bits
(`lzw.c:14`); the length check of torrent messages adds 4 to 32 bits
(`peer.c:182`); in a blitz game of Battleship a random shot leaves `AI.hit` as it
was (`battleship.c:173`), so the computer may go on shooting after a miss.

## 2. Modules

| Module | Models | Composed with |
|---|---|---|
| `PipeQueue` | the abstract promise of a pipe: a bounded FIFO queue that can be closed | |
| `ThreadPipe` | `lib/os/threads.c` | implements `PipeQueue` |
| `ThreadPipe_proofs` | theorems about it | |
| `Exab` | `prog/exab/exab.c` | extends `ThreadPipe`: the program on its pipe |
| `Exab_proofs` | theorems about it | |
| `Build` | loading, ordering, parsing and translating a project | |
| `Build_proofs` | theorems about it | |
| `Lexer` | `lexer.rs`, `buf.rs`, and C's lexemes | |
| `Parser` | statements and declarations of `parser.rs`, `preparser.rs` | |
| `Expressions` | expressions of `parser.rs`, their writing by `format_c.rs`, C's reading | |
| `Types` | `types.rs`, the typing of `translator.rs`, C's types | the trees of `Expressions` |
| `Statements` | control flow of `translator.rs` and `format_c.rs`, and runs of it | |
| `Translator` | scopes, prefixes, synopses and order of `translator.rs`, and C's rules of declarations | |
| `CheRun` | several che commands on one disk | |
| `CheRun_proofs` | theorems about it | |
| `TestRunner` | `che test` | |
| `IOLoop` | `prog/torrent/ioloop.c` with the kernel's side of it | |
| `IOLoop_proofs` | theorems about it | |
| `Torrent` | a downloader and a seeder: `peer.c`, `peerproto.c`, `files.c` | |
| `Torrent_proofs` | theorems about it | |
| `RecursionTheorems` | induction and recursion over numbers, for the proofs | extended by `Build_proofs`, `Torrent_proofs`, `Programs_proofs` |
| `TorrentList` | `prog/tl` with the daemon | |
| `WebServer` | `prog/webserver`, `lib/os/proc.c`, the scripts | |
| `Http` | `http.c`, `cgi.c`, `tokenizer.c`, `urlencode.c` | |
| `Battleship` | `battleship.c`, `game.c`, `ai.c` | |
| `Lzw` | `lib/compress/lzw.c` over `lib/bits.c` | |
| `Huffman` | `lib/compress/huffman.c` over `lib/bits.c`, `reader.c`, `writer.c` | |
| `Utf` | `lib/utf.c` | |
| `Json` | `lib/formats/json.c`, and the grammar of its texts | |
| `Bencode` | `bencode.c`, `bencode_writer.c`, `torrent.c` of `lib/formats`, `prog/bencode`, `tracker.c` | |
| `Regexp` | `prog/libregexp9/regexp9.c`, and what expressions stand for | |
| `Wisp` | `prog/wisp/eval.c`, `eater.c` and the reader, and what wisp programs mean, without a heap | |
| `Lc3`, `Chip8` | the machines of `prog/emu`, and programs for them | |
| `MCCompiler` | the inputs of the translator's parts | extends `Build`; instantiates `Lexer` to `Translator` |
| `Programs` | the programs that need no other one to run, in one specification | extends `CheRun`; instantiates `TestRunner`, `Battleship`, `Lzw`, `WebServer`, `TorrentList` |
| `Programs_proofs` | theorems about `che test`, the torrent list, the web server and Battleship | |
| `MCPrograms` | values of the constants, the inputs of the algorithms | extends `Programs`; instantiates `Http`, and `Huffman` to `Lc3` |
| `MCTorrent` | values of the constants of `Torrent` | |

Definitions named `X_Something` and marked "a slip" are mistakes a programmer
could make in `X`. They are not part of any specification. Putting one in the
place of `X` makes a property fail, which shows that the property depends on
that part of the code; `PROJECT.json` ("mutants") pairs them.

### How the models correspond to the code

**ThreadPipe.** A thread is outside (`idle`), at the mutex (`*_enter`,
`*_woken`), inside the critical section (`r_loop`, `w_check`, `w_loop`), asleep
on a condition variable, or past the unlock with a signal still to send
(`r_signal`, `w_signal`). Between lock and unlock or wait a thread touches
shared state alone, so what it does there is one action. The signals of `pread`
and `pwrite` come after the unlock and are actions of their own, in which the
woken thread is any of those asleep, or nobody. `closed` is looked at where the
code looks: by `pwrite` once, before its loop. A panic stops everything.
Spurious wakeups, which POSIX allows, are steps.

**Exab.** `at` holds where a worker is in `worker`; calls into the pipe are
`ThreadPipe`'s `Call` and `Step`. Main starts workers, sends one nudge per
request, closes, joins in order and frees. A refused connect ends the worker
with its nudge in hand (`exab.c:122`), other failures panic.

**Build.** `load_tree`'s recursion is an explicit stack of frames
`(module, next import)` and `walk` is its result vector; `crumbs` is the chain of
modules on the stack. `Uniq` is `reverse` and `uniq`, one path a step. A file is
its import list and a fault (unreadable, unparsable, untranslatable). A unit is
the sequence of modules whose declarations it carries, as `expand_imports`
collects it, one element a time. What happens inside a module is abstracted to whether it fails, and
is what the next six modules are about.

**Lexer.** A text is a sequence of characters, `Lexer.get` a reader of one token
at a cursor. The tokens are compared with C's lexemes: the longest one at each
place, adjacent strings joined, comments dropped.

**Parser.** The recursive descent as functions on a state: tokens left, errors
collected, and a fate. Expressions are one token, but for the names that could
also be types. The loop of `read_body`, with its skipping to the next semicolon
or brace, is there with its errors.

**Expressions.** `ParseExpr` is the table-driven descent of `parser.rs`,
`Format` the writer with its `is_op` brackets. C's reading is a definition of
its own by the grammar of C99 6.5, from the weakest operator inwards.

**Types.** A type is a base and the operations that lead to it, as in
`types.rs`. `TypeOf` follows `tr_expr`; `CTypeOf` is C's rule, with aliases
resolved at any depth and the decay of arrays and functions.

**Statements.** Bodies are translated to C's statements, a switch over strings to
a chain of ifs; runs of both are followed choice by choice.

**Translator.** A module is a list of declarations, an expression the names that
it mentions. `Translate` is `translate` in its order: scopes, `tr_nsid`, exports and
prefixes, `get_module_synopsis`, `expand_imports`, `reorder_elems`. What C makes of
the result is a walk over the file from top to bottom.

**CheRun.** One step per file opened, file written, file compiled, executable
created, executable filled, and exec. The C compiler and linker are modelled
from their use in `build.rs:44-99`. Two ghosts record what other commands did:
`met` has the commands that were under way together with one that shares a module
or the output with them, `replaced` those whose output was linked over before
they executed it.

**TestRunner.** The loops of `run` and `run_arg` with their counters; `status`
is the exit status as the system keeps it.

**IOLoop.** `process` is a sequence of stages: select, the timers that are due,
then for each slot reading or accepting, writing, closing. Handlers may write,
close, connect or set a timer, in any combination that a program could choose.
The kernel's side is `sock`: what waits to be read, whether a connection is
being made, is refused, reset or ended, and whether there is room in its send
buffer for the loop's next buffer; these change between any two steps. Without
`room` a write to a connection that we made takes part of that buffer only, since
its socket does not block, and the process panics; a write to one that was
accepted waits.
`fate` records how the process crashed, if it did: a panic, a null pointer, an
empty outbox.

**Torrent.** `wire[p]` is the stream to `p`, cut up by `Receive` at any place.
A message is a sequence of parts of which it needs all. `disk[p]` is per
file what each byte is: right, or wrong, or the file is missing; `NoPlace` are
files whose directory is missing, `Spoilt` bytes that the seeder has wrong.
`sliceop`'s mapping of a slice onto files is modelled with its offsets. A peer
panics where the code does. Bytes are coarser than in the program: a slice has two.
`FlagRoom` is the room that a message has for the flags of a bitfield, 1000 in
the code: with more pieces than that the stack is overwritten, and the side goes
on or is brought down (`Bitfield`).

**TorrentList.** A command is a step for each thing it asks of the daemon, each
line it reads or writes and the rename; it can be killed between any two. The
daemon's torrents change at any time, and its answer may be empty. `hidden` and
`unsure` are no state of the program: they are what the user has asked for, by
the torrents that there are and not by what the program was told, and the names
of which nobody can say it.

**WebServer.** `thread[c]` is where the thread of a client is, `script[c]` the
process that works for it, with what it has written and what waits in its
pipes. Messages are kinds and lengths. Descriptors are counted as they are
opened and, if they are, closed.

**Http.** Messages are characters (a few long words are one each), a stream is
the portions in which it arrives. The tokenizer keeps what it has looked ahead
at, as in the code, so that what depends on a single read shows.

**Battleship.** The fleet, the board and the mode are parameters. Screens and
key strokes are left out; what the player decides is a choice. `turn()`'s
result, which in the code is the last hunting shot's, is kept in `ai.hit`. The
direction of a reverse jump may leave the tables of `shipxy`; what is read
there may be anything, so the search may go on anywhere.

**Lzw.** `dict` and `known` are the two dictionaries, `stream` the bits. Code
widths, resets, the wrapping of word lengths and the padding of the last byte
are those of the code. A read past the end of the stream panics, as `reader.file`
makes it.

**Huffman.** A tree is a term; `buildtree` gives the set of the trees that the
sorting may lead to, `treefrom` puts each value into the leftmost place, as the
code does. Bits are packed into bytes; the reader of a memory that has ended
gives the last byte again, that of a file an end.

**Utf.** Texts are bytes that end with 0. The tables are those of the code; a
run of rows for every second rune that change alike is written as its two ends.

**Json, Bencode.** A text is a sequence of signs; a parser is a function of the
text and a place in it, and gives a value with the place behind it or the way
in which it ends instead. A field's name in a torrent is one sign. The number
of nodes that can be entered, and the room for texts, files and peers, are
constants.

**Regexp.** Compilation with both stacks to a program of instructions, the
optimizer, and the machine with its two lists, small and then large. The meaning
of an expression is defined apart from it, as the set of ends of its matches.

**Wisp.** The evaluator works on a heap of numbered objects with their counts;
where the C code would use what it has released, the world is `undef`. `Means`
gives forms their meaning on trees, without a heap and without counts; forms in
which wisp is known to go its own way are `odd` and end the comparison. The eater
and the reader are there too, with the grammar that texts follow. The counts of
the heap may be higher than the uses: that everything is given back is not shown.

**Lc3, Chip8.** A machine is a record of memory and registers; a step is an
instruction. The properties run assembled programs and ask for what they leave
behind.

## 3. Runs

Between them the passing runs fire every action. Deadlock is checked except in
`exab_hang`, where the point is that the system stops; in the others a step of
its own says that the system has ended.

| Run | Question | Bounds, and why they are enough |
|---|---|---|
| `pipe_safety` | Is the pipe a queue, and does it lose wakeups? | Two readers, two writers (one closes), two slots, two items. Two of each kind is what it takes for a wakeup to go to the wrong one or be overtaken; two slots distinguish full, empty and between, and wrap. |
| `pipe_late_store` | The assertion of `pwrite` with a second writer | *violation*, see below. One slot, one item. |
| `exab_safety` | Is every nudge accounted for, do readers return after the close, and does exab end? | Three workers, five requests, two slots: more requests than slots and workers, so main sleeps; two failing connects leave one worker; one spurious wakeup. |
| `exab_hang` | Does exab end if every connect fails? | *violation*. Two workers, four requests, one slot. |
| `compiler` | Does che take what it should, and mean in C what it says? | *Build*: every import graph of three files with up to two imports each (chains, diamonds, self imports, loops of two and three, repeated imports) with at most one faulty file. *Lexer*: all texts of three pieces of 31 (symbols, digits, quotes, comments, the macros), and of four of nine awkward characters. *Parser*: a module with each kind of type, parameter list, statement inside each compound statement; each cut after every token; each with a semicolon missing, with no statement, with a simple, and with a compound one behind it. *Expressions*: all operators, two deep on both sides, of every strength that differs, and composite literals with all kinds of keys. *Types*: 24 names of as many types with one or two operators. *Statements*: each jump in each statement in each statement; three conditions, a variable and a call of every outcome. *Translator*: a library in 192 forms and a main module with each statement around each use of a name, keys of literals included, with locals, parameters and later globals that shadow or do not. |
| `programs` | Programs that need no other one to run, of which the initial state chooses one | *che*: two runs and two builds, at most two under way at once, three of them over projects that share a module at different positions, both runs with one output; so a command meets one that shares something with it, or one that does not, and finds what earlier ones left, spoilt or not. *che test*: three tests of any outcome, two arguments of five directories. *Battleship*: a row of seven with a ship of four (blitz), a row of six with two ships of two (salvo), 3 by 2 with a ship of two (regular): each mode of the computer's search and each way to play is reached. *LZW*: all messages up to nine letters of two; dictionaries of 8 entries, so resets happen, and lengths modulo 4. *Web server*: two clients with one or two requests each; eight scripts, one for each way to write or end; a read takes two units, a pipe holds four; 13 descriptors, which a third script exhausts; a file that changes once; clients that leave. *Torrent list*: two torrents with up to two names, three lines, killed anywhere. *Regular expressions*: all of up to four signs of one set and three of another, repeated groups, all classes of two or three spans; texts of up to three characters. *wisp*: three forms inside each other, with errors, throws, rebinding and macros at each place. *Reader*: all texts of three signs of 14, and longer ones of lists and dots. *LC-3 and CHIP-8*: assembled programs over words at the edges of 16 and 8 bits; a borrow is left to the exceptions below. *HTTP*: requests, responses and heads of a few characters, in up to three portions cut anywhere but, for a request, between its last two characters. *Runes*: those at the ends of each length, twenty first bytes with up to three others, texts of up to three runes, every row of every table, every block of runes that has letters with cases. *JSON*: values two deep, and all texts of up to five signs of the grammar, and of up to five more behind `{"a":`, with a reference grammar beside them. *Bencode*: values three deep cut after each sign, all texts of two to five signs, nesting to two beyond the stack; torrents of up to four pieces, fields in all orders, pairs of answers with room for two peers. *Huffman*: texts of two to four letters, each up to three times, in every way that equally rare letters may be merged; trees of up to four depths and twelve nodes; all sequences of nine bits in both orders; memories written and read in portions. |
| `ioloop_passes` | The table, while it changes | Three slots, two descriptors, one timer: a listener and a connection or two connections, one slot to spare, so that a descriptor is reused in a different slot. One item waiting per descriptor, outboxes of one, and send buffers with room for one or for none. |
| `ioloop_write` | Does a write succeed, as promised? | *violation*. |
| `torrent_download` | Does a download complete, and stay right? | Files of 3 and 4 bytes, pieces of 3, slices of 2, reads of up to 4: a short last slice, a short last piece, messages longer and shorter than a read. Every left-over; a directory that is missing; a seeder that has everything right or a byte of the middle piece wrong, so that there are pieces before and behind it. No piece lies in two files. |
| `torrent_spanning` | The same with a piece in two files | *violation*. Pieces of 4. |
| `compiler_switch` | Is a switch over strings a switch? | *violation*. The statements of `compiler`. |
| `lzw_end` | One long message | *violation*. 143 half-bytes make 112 codes; the 113th is END, at the size at which the width grows, and the bits before it end a byte. |

`programs` and `compiler` each have one specification for several systems that
have nothing to say to each other: after the first choice the variables of the
others keep a placeholder. An algorithm has no steps that anybody else could see.
Its input is chosen by one step of the behaviour, and the property judges that
step: what the algorithm makes of the new input is what the reference definition
says.

### Fairness

- **Threads** (`ExabFairSpec`): weak fairness of each thread's steps, outside the
  pipe and inside it: the scheduler runs every thread that can run. Strong
  fairness of taking the mutex is not needed, for exab's work is finite.
- **Build, Battleship**: weak fairness of the whole step: a sequential process
  goes on.
- **IOLoop**: weak fairness of a pass. `process` is called in a loop and `select`
  returns at its timeout. The network promises nothing.
- **Torrent**: weak fairness of connecting and of each peer's step: both
  processes run, and TCP delivers while the link is up. The link may break at
  any time, after which nothing is promised.
- The web server and the torrent list are not fair: their properties are about
  what may not happen.

### What disagrees with the code's own words

1. `pipe_late_store`: `pwrite` asserts that it never writes to a closed pipe
   (`threads.c:172`), but looks before it waits. A writer that was asleep on a
   full pipe stores after the close. With one writer that closes itself, the
   only use in the repository, this cannot happen, and that is proved.
2. `exab_hang`: when every connect fails main blocks for ever (`exab.c:88-122`).
3. `ioloop_write`: `write` puts off what it is given until "it's guaranteed to
   succeed without blocking" (`ioloop.c:173-174`), but the socket of a connection
   that we made does not block, and one that has some room left and not enough
   takes a part, which is a panic (`ioloop.c:322`), although nothing has failed.
4. `torrent_spanning`: every file's part of a piece is read to the beginning of
   the buffer (`files.c:113`, against `files.c:10-11`).
5. `lzw_end`: the width of END is not the one that the decompressor reads
   (`lzw.c:308-311`). In most streams the zeros of the padding hide it, which
   is also why `RoundTrip` holds for the short messages of `programs`.
6. `compiler_switch`: "`switch str` behaves like a switch" (`README.md:117`). It
   becomes a chain of ifs: a `break` in a case leaves the loop around it, and a
   value that is a call is worked out for every comparison.

Other places in which the code does not do what it says, of which a passing
property excepts just the case in question, by a condition that has a name:

- `che run` is to "build from a source file and run" (`main.rs:35`), but all runs
  link to `/tmp/chebuild` (`main_run.rs:22`), and one may execute what another
  has linked in between (`replaced`).
- A connect that fails at once is dereferenced before it is looked at
  (`ioloop.c:153`), where `ioloop.c:149-150` has the handler called (fate
  "no connection").
- `chip8.c:377` says "Vx -= Vy, VF = not borrow": `SUB` sets VF when it borrows,
  unlike `SUBN`, and a difference that borrows (`Borrows`) is one too small, with
  255 for 256 in lines 381 and 401.
- `literal_follows` "returns true if the given literal is next in the buffer"
  (`tokenizer.c:251`), but makes one read: when the two characters that end a
  request arrive apart, `read_request` fails (`http.c:359`, `InLastLine`).
- `clone` "creates a deep copy of the value" (`json.c:63`), and has none for null
  (`Clones`).
- `^` "matches the beginning of a line" (`regexp9.c:59`). `regexec` on bytes looks
  for the next line behind a newline still to come, and steps over the one that
  begins where the search has arrived (`regexp9.c:968`, `BehindTheNewline`).
- "If id matches, omit this line. Otherwise keep it." (`tl.c:208-209`): while
  `transmission` is silent an `unhide` keeps no line (`unsure`).
- A torrent of more than 1000 pieces overruns `msg_t.data` (`peerproto.c:61`,
  `:114`); the repository's own `a.torrent` has 6942. `PanicsForNoPlace` and
  `OnlyPlacesPanic` are of torrents up to that size (`FewPieces`).

### What the properties except

Where the code goes its own way, whether something calls that wrong or nothing
does, the property says what it is and holds for the rest. Each exception is a
condition on the input or on what happened, named in the module, and most are
sharp: the property says that exactly these go another way.

- **che.** Two commands at once that share a module or the output can make each
  other fail (`met`), and a run can execute what another has linked (`replaced`).
  `che test` does not count a test that does not compile (`main_test.rs:47`).
- **Lexer** (`Foreign`). Lexemes of C that the dialect does not have are cut
  otherwise or refused: numbers like `.1`, `1e+5` and `1u` (`lexer.rs:116`), wide
  and long character literals, line comments and macros that go on behind a
  backslash, digraphs. What comes before the first of them is cut as C cuts it. A
  text that ends behind a quote, or behind the e of a number, is a panic.
- **Parser.** A file cut inside a function's body is never reported: the parser
  panics or goes round in `read_body` for ever. A missing semicolon is one error
  unless the statement behind it goes on after its first semicolon or brace: the
  skip of `parser.rs:1090` then ends inside it, and there is a second one.
- **Expressions.** The brackets that `format_c` loses (`KeepsBrackets`): a right
  operand as strong as its operator, `a - (b - c)`; an assignment on the left of
  another; a minus or an ampersand before its like; what is not a primary
  expression before an index, a call or a postfix operator; a cast or `sizeof`
  before a field. An empty composite literal is not C. A composite literal with a
  key that is no bare name is a panic (`Panics`, `translator.rs:899-916`).
- **Types** (`Mistaken`, `Misspelt`). A comparison of two bools has the type `boo`
  (`types.rs:238`), so that `(a == b) && c` is refused. A number plus a pointer is
  typed as the number, and the address of an array or of a function has another
  type than in C.
- **Control flow** (`Differs`). The switches over strings of `compiler_switch`,
  and no others.
- **Translator** (`CRefuses`, `Exposes`). che translates and C refuses: a define
  whose name something else has, also in an importer; a public function with a
  parameter of its own name; a local with the name of a parameter; a public
  declaration that mentions a private type; a struct inside one that comes first.
  The key of a composite literal loses the prefix of a public name, and may be a
  name that nobody has declared (`KeyIsLost`, `translator.rs:899-916`).
- **Regular expressions.** A repetition of what may be empty, inside another,
  puts itself on the list until it is full, and `regexec` returns -1, which
  `libregexp9.c` takes for a match. `^` behind a newline: see above.
- **wisp.** The `odd` forms, among them: a call with too many arguments
  leaves its variables bound; an error in a test of `cond` counts as true; an error in the
  body of a loop is not looked at.
- **LC-3.** `JSRR R7` overwrites the register before it jumps; the end of an
  image is stored behind it as a word; an image that fills the memory does not
  start. No program of the property depends on them.
- **CHIP-8.** Borrows: see above. The stack of 16 calls,
  the room for the program and the pixels are not checked. A screen with as many
  pixels as the last is not shown. The listing has no operands for `SHR`,
  `SHL` and `SUBN`. `SKP` forgets every key that was pressed.
- **HTTP.** A request whose last two characters arrive apart: see above. A body with a
  length must not have the character 255. The web server's own answers end their
  lines in a way that the library's client does not read.
- **Runes** (`Utf`). A text that begins with the rune of errors is not looked for;
  dotted I, the variants of a letter and the letters of Georgian do not come back
  from their other case. Copying an empty text of runes copies what follows it.
- **JSON** (`Back`). A line break or a tab in a string is written as two
  backslashes and a letter, and is read as a backslash and a letter; keys are
  written as they are (`json.c:476-491`), and one with a quote or a backslash does
  not come back (`BareKeys`); a copy of null is a panic; what follows the value is
  not looked at.
- **Bencode.** Skipping a node that has no end never ends (`bencode.c:164`: there
  is always more of a node at the end of the data). A text that fills its field
  has no 0 behind it. The tracker's reader is told 10000 bytes whatever it has
  (`tracker.c:106`), and its answers add their peers to those of the answers
  before, until the room is full.
- **Huffman.** A text of fewer than two distinct letters has no tree that can be
  read with. Nothing tells where a text ends: its reader has to know how many
  letters there are.
- **Web server** (`ServesUnlessProvoked`). A client that goes away ends the
  server, as does a script that fails or whose head is not whole in the first
  read; a script that reads its input or that says more than a pipe holds keeps
  its thread for ever; descriptors of scripts are never closed; what a script says
  after the first read is cut off.
- **Torrent list** (`unsure`). When the daemon does not answer, `hide` hides
  nothing and `unhide` forgets every name (one without a torrent is dropped), so
  that nothing is said of these names until they are hidden or unhidden again; nor
  of a name of several torrents of which only some were unhidden. A `hide` that
  runs at the same time as an `unhide` is lost, so commands run one at a time here.
- **Event loop** (`CrashesAreProvoked`). It ends when there is no room for a
  client, a descriptor or a timer, when a connect fails at once, when a
  connection is reset or refused later, and when one that we made takes only part
  of what it is given. It stands still while one that was accepted takes nothing
  (`Blocked`).
- **Torrent.** Torrents of more than 1000 pieces: see above. A piece that arrives wrong stops the download at it; a missing
  directory ends the downloader.

## 4. Proofs

The modules `*_proofs.tla` prove theorems for all values of the constants: any
number of threads, files, commands, slots, pieces. The hypotheses are the named
`ASSUME`s of the models, which TLC evaluates for the instances it checks, and,
where a theorem is conditional, the condition written in it.

`RecursionTheorems` has what the others need about numbers: induction in the form
"a set with 0 and the successor of each member has all of `Nat`", and that a
recursive function `f[n \in 0 .. N]` exists and satisfies its equations
(`Recursion`, `Recursions`). With these, facts about functions that recur over a
number are proved (`FileEnd`, `Merge`, `Headers`, `Sum`, what a buffer is after
several slices), though no theorem that quantifies over operators can be used.

`ThreadPipe_proofs`, from the assumptions that there are finitely many threads
and at least one slot, and that the end of the pipe is no item:

- `TypeCorrect`, `TypesHold`: `TypeInv` (types, mutual exclusion, and that a
  thread is only where its role lets it be) is inductive, and implies `TypeOK`:
  positions wrap inside the ring, `len` never passes the number of slots.
- `WakeupsAreNotLost`: `NoLostWakeup` relative to `TypeInv`. The invariant
  compares counts (items against signals to come and readers about to look), so
  the proof rests on lemmas about what a step does to the cardinality of the set
  of threads at a place (`CountMove`, `CountWake`); each action is then a line of
  arithmetic. It is inductive as it stands.
- `ClosedPipeHoldsNoReader`: inductive with `TypeInv`.
- `PipeImplementsQueue`: the refinement of `PipeQueue`, with `Queue`, the slots
  from `start` on, as mapping. `StoreAppends` and `TakeRemoves` show what writing
  a slot and moving `start` do to that sequence modulo the size.
- `LoneWriterStoresNothingAfterClose`: with `Writers = Closers = {w}`; the
  strengthening is that only `w` is in `pwrite` or `pclose`, and after the close
  not in its wait loop.

`Exab_proofs`:

- `ExabUsesThePipe`: every step of exab is one of `ThreadPipe`'s or leaves the pipe
  alone, so `ThreadPipe`'s theorems hold of the pipe inside exab
  (`ExabPipeIsSafe`).
- `NudgesAreAccounted`, `FreedPipeIsUnused`, `EndedRunServedAll`: the inductive
  invariant relates where main is to how many workers were started, have left
  their loop and were joined, and counts nudges: stored = in the pipe + in a
  worker's hand + served + lost. The last theorem has the condition that fewer
  connects fail than there are workers: with as many, main blocks (`exab_hang`).

`Build_proofs`, from finitely many files and import lists over them:

- `BuildInvariant`: `BuildInv` is inductive. Its core (`WalkInv`) is what the walk
  knows: every import of a file visited is visited again after it, or is still
  pending in that file's frame on the stack. When the stack is empty nothing is
  pending, so in the reversed walk a module's imports have occurred before it,
  and keeping first occurrences keeps that (`OrderInv`). `StackInv` keeps the main
  file at the bottom of the stack and therefore last in the order; `NeededInv`
  bounds the walk by every closed set that has the main file. Neither property is
  inductive alone: the order says nothing while the walk is under way.
- `DependenciesComeFirst`, `ImportsAreTranslated`, `OrderIsWhatMainNeeds`,
  `RecursionIsBounded` follow. The last one (no file is twice in the chain) is
  what makes the recursion of `load_tree` end.
- `LoopsAreCycles`: `LoopInv` says that each file on the stack is imported by the
  one below it; so a reported loop is a set of files that all import one another.
  The other way, in a complete order the first member of such a set would have an
  import in front of it (`OrderedIsAcyclic`).
- `UnitsCarryTheirHeaders`: `HeadersInv` says that unit i has exactly what module
  i can reach, once. `ReachableStep` unfolds what can be reached by one import,
  `MergeIs` and `HeadersIs` say what `expand_imports` collects, and what is
  collected cannot contain the module itself since the modules in front are
  closed under imports (`KnownModules`).

`CheRun_proofs`, for any number of commands under way at once, all of which may
share modules and link to one path:

- `UnmetBuildsSucceed`: a correct project builds unless the command was under way
  together with one that shares a module or the output. The invariant says,
  for each command, which of its C files are its own by now, and survives what
  earlier commands have left behind.
- `RunsExecuteTheirOwn`: a run executes what it linked itself unless another
  command linked to the same path after it did and before its exec. The
  invariant follows the executable through linking to exec.
- `OneAtATime`: commands run one after the other meet nobody and are not
  replaced, so all build and each run executes what it was given.

`Programs_proofs`, of the specification `MachinesSpec` of `Programs`, in which each
step is one of the program that runs (`StepOfOne`); `MCPrograms` adds the
algorithms to it. The assumptions are what the constants are: numbers, finite
sets, sequences (`Settings` of each module), and that the player of Battleship
aims at a cell it may shoot at.

- `che test`, `VerdictsAreTheirOwn` and `VerdictsAreCounted`, for any directories
  and any outcomes: `RunnerInv` adds to what is counted so far what the argument
  under way will add. What `status` shows is the count modulo 256, as the system
  keeps it, so "0 exactly when no test failed" is stated for fewer than 256
  failures: with 256 of them `che test` reports success.
- The torrent list, `HiddenIsNotListed`: `ListInv` says that the file has just the
  names that the user has hidden, of those that are not `unsure`, and that what
  an `unhide` has written so far is the
  lines it has read without those of torrents that it shows (`Copied`). The rename
  replaces the one by the other, and a kill before it leaves the file alone. What
  the program keeps goes by the answer that it got, what the user means by the
  torrents that there are: the proof shows that the two agree when there was one.
- The web server, `AnswersAreTheirs` and `ServesOn`, for any number of clients and
  any scripts, reads and pipes: `ServerInv` follows a client's requests through
  what is still to be read, what is being answered and what was answered
  (`Ordered`, `Sends`, `Truthful`), and each script's output through what it has
  still to say, what is in its pipe and what was read (`Flow`, `Unread`,
  `IsRead`). Neither property is inductive: that an answer is whole depends on what
  the one read took, which only the script's first write decides.
- Battleship, `PlayedFairly`, for any board and fleet: `GameInv` has the geometry
  (`Tidy`: each ship is in its cells, and no cell next to it is another's), counts
  hits as marked cells, and says of whom the game is decided. That no two ships
  touch is what makes the water that is marked around a sunk ship
  (`mark_empty_water`) true. That turns are passed on in each way to play is what
  makes `winner()` right.

`IOLoop_proofs`, for tables of any size, whatever handlers, timers and the
network do:

- `DescriptorsStayApart`: that no two clients share a descriptor is not
  inductive. What is: slots and descriptors are both given out lowest first and
  taken back together, so the client in slot s has the s-th descriptor. This
  rests on the loop's program holding no other descriptor while it runs:
  `files.c` opens and closes within a call, and no handler connects at its exit.
- `NewClientsWaitTheirTurn`: an action property, from the stages of a pass.
- `OnlyProvokedCrashes`: the only ways to crash, a write of part of an outbox
  among them; the panic on an empty outbox cannot be reached, and nothing is
  written to a connection that is still being made.

`Torrent_proofs`, for files, pieces, slices and reads of any size:

- `StreamsAreWhole`, `StashStaysSmall`: however `Receive` cuts the stream, what is
  stashed and on the wire is whole messages that the side expects, the
  handshake first and only once. Since a step of the state machine takes every
  whole message out, what stays is less than one, so that a read always fits.
- `ChecksAreRight`: an equivalence for each reachable disk, on the condition that
  no piece lies in two files (`OneFileEach`); without it `torrent_spanning` shows
  the opposite.
- `OnlyPlacesPanic`, `RightBytesAreKept`: on the same condition, the first also on
  that of no more than 1000 pieces (`FewPieces`), which is all that a message has
  room for. Slices asked for
  lie inside the torrent (`Torrent`'s own sums over files, `FileEnd`, are
  monotone), so writing one touches exactly its bytes.

What is only model-checked, and why:

- Liveness: `ClosedReadersReturn`, `ExabEnds`, `Terminates`, `InputIsServed`,
  `TimersRun`, `DownloadCompletes`, `GameEnds`. TLAPS handles neither fairness nor
  `ENABLED`.
- The algorithms over trees and texts: `SyntaxIsChecked`, `TypesAreTrue`,
  `MeaningSurvives`, `ReadAsWritten`, `LispIsMeant`, `MachinesCompute`. Their
  operators are declared recursive, for which TLAPS has no SMT solver, and
  they would need induction over data.
- `RoundTrip` of `Lzw`: it is not true of all messages (`lzw_end`), and what makes
  it true of the others is where a stream's last bits come to lie. Its codes'
  widths are powers of two, about which the provers know nothing.

## 5. What is not modelled

- Torrent: several downloaders, malformed messages, more pieces than a greeting
  has room for (7416, `peer.c:92`), keepalives (neither side
  sends one first), the request to the tracker, the printing and making of torrents.
- IOLoop: how many bytes a write takes: it is one buffer or less than that, and
  whether there is room may change at any time; what the handlers do with
  what they read, which is any combination of calls.
- Build: two paths that name one file. Loading and the contents of modules are
  apart: a module's inside is looked at with one library, not with a project.
- Parser: expressions inside statements are one token; macros pass through.
- Translator: `calloc!`, panics and tracing, which expand to fixed text.
- Lzw: readers that give less than asked for.
- Utf: `runestrchr` of a rune that is not 0, with `runestrrchr` and `runestrstr`
  on top of it, `runestrecpy`, `runestrncat` and `utfecpy`: their loops do not go
  on from the first rune.
- Json: `formatwr`, which after a short write writes the beginning again; numbers
  of a hundred characters.
- Bencode: numbers that are too large for an int; how values are printed.
- Huffman: codes of more than 16 bits, for which the writer has no room.
- Battleship: the screen, the log, the score.
- Web server: the lengths of its buffers, the descriptors that scripts inherit
  from each other, what a path stands for, requests that are no requests.
- Torrent list: `add` and `rm`, which pass their arguments on.
- wisp: the free lists of `mem.c`, the library in wisp, detached processes,
  floats that are not whole.
- Emulators: random numbers are one number; sound, sleep and prompts.
- Regular expressions: the wrappers around `regexp9.c`.
- `parallel`, and the components that `PROJECT.json` lists as not modelled, with
  the reasons given there: calls of the operating system, floating point, tables,
  and filters without state.

## 6. Plan

Done, in this order: the pipe and its queue, exab, the build order, the che
commands, the event loop, the torrent, Battleship, LZW; the translator's parts;
regular expressions, wisp, the emulators, HTTP; the web server and the torrent
list; runes, JSON, bencode with torrents, Huffman codes. Proofs for every system that takes steps of its own, but for LZW.

Next, most important first:

1. The byte queue and the maps of `lib/clip`, the round trip of `csv.c`. They join
   `MCPrograms`.
2. `IOLoop` composed with the handlers of `peer.c`, and several peers.
3. The dictionaries of `Lzw` apart from its bits, about which theorems are possible.
