# pork in TLA+

pork is an ncurses instant-messaging client for IRC and AIM.  It is one process
and one thread: a main loop (`src/pork.c`) waits in `select()`, runs the callback
of every descriptor that is ready, then the timers, then redraws.  All its
difficulty is in what one callback may do to the data another one is using: a
window closed while it is current, an account freed while windows still name it,
a descriptor deleted while the table of descriptors is being walked, an event
handler that removes itself.  There are no locks and no threads to model; the
interleavings are those of network messages, user commands, timers and scripts,
and of the callbacks nested in them.

Paths below are relative to the repository's `src/` directory.

## 1. The system

| part | state it keeps | operations | talks to |
|---|---|---|---|
| main loop, `pork.c` | the run flag, `time_now` | start-up, SIGWINCH, keyboard input, per-tick update of accounts and timers, `pork_exit` | everything |
| windows, `pork_screen.c`, `pork_imwindow.c` | circular `window_list` sorted by number, `cur_window`, `status_win`; per window: owner, type, target, skip, visible, buddy list, focus, key bindings | new, find, goto, cycle, renumber, close, bind to an account, show/hide buddy list, resize | accounts (reference counts), chat (leave on close), buddy list |
| accounts, `pork_acct.c` | `acct_list`, per account: reference count, connected/disconnected/reconnecting flags, attempts, times | connect, connected, connect_fail, disconnected, reconnect, update (timeouts), delete | protocol callbacks, windows, events |
| I/O, `pork_io.c` | list of sources: descriptor, condition, callback, key | add, del, set_cond, dead sources, run | everything with a descriptor |
| chat rooms, `pork_chat.c` | per account a list of rooms, per room a list of users and an ignore list; links to windows | join, leave, forced leave, kick, quit, nick change, rejoin | windows, protocol, events |
| events, `pork_events.c` | per event type a list of handlers, a reference number | add, delete, generate (re-entrant) | Perl scripts, all of the above |
| timers, `pork_timer.c` | list of timers | add, delete by number, owner or command, run | commands |
| transfers, `pork_transfer.c`, `protocols/irc/pork_irc_dcc.c` | per account a list of transfers with a status | offer, accept, get, resume, abort, progress, complete | I/O, protocol, events |
| IRC, `protocols/irc/` | the session: socket, input buffer, output queue, server list, options; per channel modes and users | connect, send, flush, parse and dispatch, modes, names | I/O, accounts, chat |
| AIM, `protocols/aim/` with libfaim | connections, tx/rx queues, SNAC cache, cookies, server-stored lists | the OSCAR protocol | I/O, accounts |
| display, `pork_swindow.c`, `pork_slist.c`, `pork_input.c`, `pork_screen_io.c` | scrollback, buddy-list widget, input line and history | add line, scroll, edit | windows |
| configuration, `pork_set.c` and friends, `pork_bind.c`, `pork_alias.c`, `pork_format*.c`, `pork_color.c` | preference tables, bindings, aliases, formats | set, get, parse | commands |
| buddies, `pork_buddy.c`, `pork_buddy_list.c` | groups, buddies, permit and block lists | add, remove, alias, signon and signoff | protocol, display |
| Perl, `perl/` | the interpreter | callbacks and XS glue | events, everything |

What makes it hard, part by part, and what makes it correct:

* **Windows.** A number names one window; the pointers form one sorted ring
  whatever was opened, renumbered and closed; the current window is open; the
  flag `visible`, on which closing decides whether to cycle away, is that of the
  current window.
* **Ownership.** An account's reference count is the number of its windows; no
  window names an account that is gone; an account that leaves the list is freed.
* **Accounts and sessions.** The flags connected, disconnected and reconnecting
  agree with the socket; attempts are bounded; a late answer to an attempt that
  was given up changes nothing.
* **I/O.** A callback never runs for a source that was deleted; the iteration
  survives callbacks that add and delete.
* **Chat.** Room and window point at each other or at nothing; a user is listed
  once; leaving twice is harmless.
* **Events.** Every handler registered when an event is raised and not removed
  meanwhile runs, in order, until one of them stops the event; nothing is used
  after it was freed.
* **Timers.** A timer runs the number of times that was asked for, and none
  outlives its account.
* **Transfers.** A source, a descriptor and a file belong to a transfer on the
  list; what is being sent is sent or given up.
* **Input.** The handlers see the lines that were said, whole and in order,
  however TCP cuts them.

`PROJECT.json` lists the same parts with their sources and their status, and under
`hazards` every place found so far where a test would hardly reach the trouble.

## 2. Modules and the code

One module per part.  Names of the source are kept: an action has the name of the
function or of the command it stands for, a variable that of the field or the global.
A module that begins with `MC` gives constants their values and puts parts together
for a run (section 3).

| module | models | state | checked by |
|---|---|---|---|
| `WindowSet` | what `doc/help/win` promises of windows and their numbers | numbers, the current window | refined by the next two |
| `WindowRing` | the circular list of `pork_screen.c`, pointer by pointer: the search that stops early, insertion in order, renumbering by unlinking and linking again, cycling past skipped windows | `list` (head, next, prev, numbers), the skip marks, the current window | run `windows` |
| `PorkScreen` | windows and owners: `pork_screen.c`, `pork_imwindow.c`, binding in `pork_acct.c`, the commands that open windows, exit | one record per open window, `acct_list` with reference counts, the current window | runs `windows`, `dangling`; proved |
| `LineEdit` | a line editor with a history | what is left and right of the cursor, the lines entered | refined by the next |
| `InputLine` | `pork_input.c`, the commands of the sets `input` and `history`, completion | the line, its cursor, its history, what the screen shows | run `windows`; proved |
| `PorkIo` | `pork_io.c`, and SIGWINCH in `pork.c` | the list of nodes, a source per node, the walk's position, whether the terminal was resized | run `io`; proved |
| `PorkEvents` | `pork_events.c` | the lists of handlers with `has_run`, the counter per type, the stack of events in progress | run `events`; proved |
| `PorkTimer` | `pork_timer.c` and the loop around it | the timers, the walk's position, seconds since each ran | run `timers`; proved |
| `Callbacks` | none of its own | `PorkEvents` and, as an instance, `PorkTimer`: the two lists that are walked while what they run changes them, one per behaviour | runs `events`, `timers`; proved |
| `AcctLifecycle` | what a user may count on of an account: a phase and a number of attempts | phase, tries | refined by the next |
| `PorkAcct` | `pork_acct.c` over `protocols/irc/pork_irc.c` and `pork_inet.c` | the record of account and session, the descriptors of the process | run `acct`; proved |
| `IrcModes` | the login, nicks, user modes and channel modes of `pork_irc_input.c`, with a server | `irc_session` and `irc_chan_data`, what the server has, two streams | run `acct` |
| `IrcRoster` | one channel: the handlers of JOIN, PART, KICK, QUIT, NICK, MODE, 353 and 366 with `pork_chat.c`, an IRC server, and the streams between | members at the server, the client's list, two queues of messages | run `roster` |
| `Conversations` | `pork_msg.c`, messages, topics and invitations of `pork_chat.c`, away and idle, with the scripts that run in the middle | a correspondent, a chat, their windows, what was said to whom | run `roster` |
| `LineStream` | lines said and lines heard | both, as sequences | refined by the next |
| `IrcInput` | `irc_input_dispatch` and `sock_read` | the bytes under way, `input_buf`, the lines handled | run `lines`; proved |
| `IrcOutput` | `pork_irc_output.c`, `pork_queue.c`, the callbacks of the session's source | `outq`, the descriptor and its source, the lines written | run `lines`; proved |
| `IrcLines` | both directions of a session together | those of the two | run `lines` |
| `Transfers` | `pork_transfer.c` with `protocols/irc/pork_irc_dcc.c` | a record and a source per transfer on `transfer_list`, descriptors | run `transfers`; proved |
| `AimTransfers` | `pork_transfer.c` over `pork_aim_proto.c` and libfaim's `ft.c`, `conn.c`, `rxqueue.c` | transfers, `aim_oft_info`, connections, sources | run `transfers`; proved |
| `OftChecksum` | the checksum of a file, `ft.c` | none: functions | through run `ssi` |
| `Buddies` | `pork_buddy.c`, `pork_buddy_list.c`, `pork_slist.c` | groups, buddies, their lines, the widget with its pointers | run `widgets` |
| `Viewport` | so many lines above, on and below a screen | those three | refined by the next |
| `Scrollback` | `pork_swindow.c`, `pork_imsg.c` | the messages, the pointers and counts of `struct swindow`, what is drawn | run `widgets` |
| `Tlv` | the byte streams of `bstream.c`, the chains of `tlv.c`, capability blocks | none: functions | through the next |
| `TlvChains` | a chain that is built, edited, wrapped and read again | the chain, the dictionary it stands for | run `ssi` |
| `AimSsi` | `libfaim/ssi.c` and its users in `pork_aim.c`, with a server and another client | official and local list, requests with addresses of items, the lists of the account | run `ssi` |
| `AimSession` | the connections of an AIM account: `pork_aim.c`, `pork_aim_proto.c`, libfaim's `conn.c`, `txqueue.c`, `rxqueue.c`, `auth.c`, `service.c`, `chatnav.c` | `connlist`, a source per connection, rooms and their windows, what the server owes | run `session` |
| `*_proofs` | the theorems of `PorkScreen` and `InputLine` (`Windows_proofs`), `PorkEvents` and `PorkTimer` (`Callbacks_proofs`), `PorkAcct`, `PorkIo`, `Transfers` with `AimTransfers` (`Transfers_proofs`), `IrcLines`, `IrcRoster` with `Conversations` (`IrcRoster_proofs`) and `AimSession` | | TLAPS |

How control is rendered:

* pork has one thread, so a handler that is not interrupted is one action, and all
  that it calls is in it.  A handler is cut only where the code lets other code in:
  at the callback in `pork_io_run`, at the Perl handler in `event_generate`, at the
  command in `timer_run`.  There the walk's position is state (`cur`, `next`,
  `stack`), and what may happen meanwhile are the same actions the user has.
  Where only the effect of a script on what its caller holds matters
  (`Conversations`, `Buddies`) the script is a choice inside the action.
* Functions that call each other back (`pork_acct_disconnected`, `reconnect`,
  `connect_fail`; `transfer_abort`, `irc_file_abort`; `aim_conn_kill` and the
  handlers of its death) are operators from a state record to the state or the
  states they may end in; the action says in which state they start.  A system call
  that may fail is a choice of the result.
* Memory that is freed is remembered: a node's address may come back, and what is
  read from a freed node or transfer is noted in `harm`, `lost`, `past` or a program
  counter "undefined", after which the model promises nothing.
* Bounded: reference numbers (`MaxRefnum`), timers, handlers and transfers ever
  added, messages under way (`MaxWire`, `MaxBack`), bytes under way (`MaxStream`),
  events in progress at once (`MaxDepth`), what may happen in a behaviour (`Plays`,
  `Starts`, `Limits`).  The bounds sit in guards and are constants of the modules.
  In `PorkEvents` `MaxRefnum` bounds the handlers there are at once, not those ever
  added: numbers wrap, as a `u_int32_t` does, and a number is given out again when no
  handler has it any more, so that handlers can add handlers for ever.

How the modules meet: `PorkScreen` counts references and decides when an account
may be freed; `PorkAcct` takes over from `pork_acct_connect` and lives on one
account's flags; its source is a key of `PorkIo`, which promises that a callback
comes only for a source that was registered and is still wanted.  `IrcInput` turns
what that callback reads into the lines that `IrcRoster`, `IrcModes` and
`Conversations` receive as messages, and what these send goes through `IrcOutput`.
`Transfers` and `AimTransfers` use sources in the same way.  `AimSession` makes the
connection over which `AimSsi` speaks, in chains of `Tlv`.  Each is checked under the
environment the others give.

## 3. What the runs check

Twelve runs of seconds to two and a half minutes with two workers.

| run | instance | asks |
|---|---|---|
| `windows` | the windows: 2 windows, 2 accounts, one with a buddy list, numbers to 3 | Are records well formed (`TypeOK`), is the visible window the current one; are numbers distinct, counts exact, owners listed, and do buddy list, its keys and its owner agree (`OwnersAgree`); is `WindowSet` implemented? |
| | the ring: 4 windows, numbers to 5 | Is the list one sorted ring, walked forward and back (`SortedRing`); does it implement `WindowSet`? |
| | the input line: editing, completion and history, one play each | Is the cursor on the line and the line on the screen (`InputSound`); is it a line editor (`ImplementsLineEdit`)? |
| `dangling` | 3 windows that may all be skipped | Is the current window open?  No: see section 6. |
| `io` | 2 keys and the keyboard, 4 nodes, 1 descriptor | Is each object registered exactly from `pork_io_add` to `pork_io_del` or death, is none passed over, does a walk stray only where a source under it was replaced (`IoSound`); is no callback given a condition that was not its own (`NoStaleCall`); does the screen get the terminal's size? |
| `events` | 2 accounts, 2 types, 2 functions (one quiet), 2 handlers at once, 2 events deep | Is `inside` exact; does a handler run once per event, and is one missed only for a nested event (`HandlersOnce`); what can keep an event from ending (`EventsEnd`)? |
| `timers` | 2 accounts, 3 timers, each endless or twice | Does the walk stray only after a deletion of its own timer or the next; does none run too often; does a finite timer end? |
| `acct` | the connection: bare or with SSL, chats, commands and scripts; 5 attempts, intervals 1 to 3, timeout 2; foreign descriptors come and go | Do account and session agree, and is no NULL or freed pointer used nor a foreign descriptor closed in the bare use (`SessionAgrees`); are attempts paced; is `AcctLifecycle` implemented; does it settle? |
| | the modes: 4 servers, 2 changes of 2 letters | Are nick and modes those of the server but for letters whose argument the client does not expect (`ModesSound`); does a login end? |
| `roster` | the channel: a calm world of 3 nicks, a rough one of 2 | Is the list the server's when nothing is under way, does the client know whether it is in, does what was left stay left (`ChatSound`)? |
| | what is said: scripts or none, AIM or IRC, a person or a chat | Does it reach whom it should, once and in its window (`SaidSound`)? |
| `lines` | in: lines of 1 or 4 bytes and blank ones, buffer of 5, 6 bytes under way | Does every line get heard; is `LineStream` implemented? |
| | out: 4 lines, a connection made and lost | Do they go out in order, without gaps, after the login (`LinesInOrder`)? |
| `transfers` | IRC: 2 transfers, 2 descriptors, files of 0 to 2 blocks, acks to 2 | Is what is called on the list, has each transfer the source its descriptor needs, is no foreign descriptor closed (`TransfersSound`); does a send end? |
| | AIM: the same two, lengths 0 and 2, got at most twice | Do transfers, connections and sources point to each other, is nothing freed used and no foreign descriptor closed but as listed (`AimTransfersSound`)? |
| `widgets` | the buddy list: 3 buddies or 2 of one name, 2 groups, 3 or 4 rows | Does the list show who is online, do its lines follow from top to bottom, are pointers misused only as listed (`ListSound`); does the cursor stay? |
| | a scroll buffer: 3 messages of 1 or 7 characters on 2 or 3 rows | Is what is drawn what the pointers say (`ScreenAgrees`); is `Viewport` implemented? |
| `ssi` | 3 lists at the server, 1 or 2 commands, 1 or 2 troubles | Is the official copy the server's, is no edit forgotten, do numbers name one item, and is what pork shows there (`ListsAgree`); does the client come to rest? |
| | chains of 3 elements of 2 types, files of up to 4 bytes | Is what is put into a chain found in it, is a file's checksum that of its parts (`WireSound`)? |
| `session` | 5 addresses, 3 rooms of 2 titles, 2 tries, 4 mixes of joins, ends, failures and minutes | Do sources and connections agree, do rooms keep connections and windows, is freed memory reached only along six known ways (`LinksSound`); does a login end and no join hang? |

Parts in one run.  Where a run has two or three parts its module holds a variable
`part`, chosen at the start: a behaviour is about one part, and the variables of the
others stay as they began.  Nothing is left out by it, for the parts share no state;
`IrcLines` is the plainest example, and what holds of it holds of both its parts.

Alternatives in one run.  Where the code is to be seen with and without something,
the choice is made at the start and kept: `use` in `PorkAcct` (bare, or with
everything of which section 6 says that it uses a pointer after it is gone; the bare
use asks whether anything else does), `world` in `IrcRoster` (calm: the list must be
exact; rough: with refused joins, lost connections, empty formats and a hasty user,
for what still holds), `world` in `Buddies` (names of their own, or one alias that is
another's name), `left` in `AimSession` and `AimSsi`, `play` in `InputLine`.

Why these bounds are enough.  In a list the interesting positions are head, tail and
middle, and an operation between two others: four windows give every one, with one
number more than windows so that gaps exist.  A walk over a list needs the node it
stands on, the saved next one and one that is added: three timers, three nodes
and a fourth for an address that does not come back at once.  An
event needs one handler that runs and one that is waiting, of two types for nesting
across types; two events deep are one inside another, of the same list, of another
account or of another type, and the theorems hold for any depth.  Five attempts with a cap of 3 seconds reach first, growing and capped
interval and the last attempt.  Two messages each way let an answer and a change
cross; ten minutes are two ticks of `Conversations`, so that a reply can be early, due
and late, and two spellings of a name are what a hash that knows case needs.  A
buffer of 5 with lines of 1 and 4 (and a newline) has lines that fit, lines
that fill it exactly and several lines in one read; a line that is longer than the
buffer arises from what is left over.  Files of 0, 1 and 2 blocks are empty, whole
and resumed; a block of 2 stands for 1024 in the checksum, whose texts of up to 4
bytes have even and odd parts.  A widget of 3 rows cannot show two groups with a buddy
each, one of 4 can, and the rows change between the two.  A message of seven characters on screens of
2×2 and 3×3 is taller than either, one of one character fits; `Word` 64 for 2^32 makes a
number that underflows visible.  Four servers differ in what a client
is told of mode letters, and when.  Two commands, or two troubles, of the
server's list cross each other; a third would meet states that two already reach.
Two joins need the authorizer, BOS, chatnav and two chat connections: five addresses,
and so a sixth login must reuse one.  Values of 0, 1 and 4 bytes in a chain are
empty, short and such that they look like an element.

`acct` has `AutoReconnect` TRUE only; what the other value does is in section 6,
where the proof found it.  Once `harm` is set or a screen has gone astray the
operations of `Scrollback`, `InputLine`, `AimTransfers` and `AimSession` stop: what
freed memory holds is not defined.

Every action and every disjunct fires in some run, and every property
fails for a mutation of a definition it depends on; `PROJECT.json` names the
mutation beside each.

## 4. Fairness

Safety is checked with none.  Liveness assumes:

* `PorkIo`, `PorkEvents`, `PorkTimer`: `WF(Step)`.  The main loop has no exit but
  `pork_exit`, `select()` waits for at most 0.6 s (`pork_io.c`), and callbacks,
  commands and Perl functions return.  No command of the user is assumed to come.
  A Perl function may generate events before it returns, so for `PorkEvents` the
  return is assumed at each depth of the stack, and strongly: `SF(Returns(d))`.
* `PorkTimer`: `WF(Tick)`, the clock goes on.
* `PorkAcct`: `WF(Tick)`, `WF(MainLoop)` (`pork_acct_update` runs once per turn) and
  `WF(ConnectDone)`: the kernel settles a `connect()`, if only by a timeout.  The
  server is not assumed to answer.
* `IrcModes`: `WF(Reads)`, `WF(Answers)`, which are the steps of client and server
  during the login only: a server that takes a connection answers NICK and USER.
* `IrcInput`: `WF(Dispatch)`, `WF(Full)`: `select()` reports again what is not read.
* `Transfers`: `WF(Works(x))`: a peer that stays reads and acknowledges.  It may
  instead leave, and the user may cancel.
* `AimSsi`: `WF(ConnUp)`, `WF(AskList)`, `WF(Reads)` and `WF(Answers)`: a lost
  connection is made again, the client reads what has come, and the server answers.
* `AimSession`: `WF(Goes)`, what is dialled is settled and what a server owes comes
  or the connection ends; `WF(Reconnect \/ Timeout)`, the main loop runs.

All are weak: each step stays enabled until it is taken.

## 5. What is proved

By TLAPS, for every value of the constants that satisfies the `ASSUME`s of the
module: any number of windows, accounts, sources, handlers, timers, transfers,
lines.  Each invariant of a proof was first checked by TLC on the run's instance.

`Windows_proofs`, first half: `PorkScreen`.  TLC's two windows become any finite set, with
more numbers than windows (`Cardinality(Windows) < MaxRefnum`, true of a `u_int32_t`
for any memory there is).

* Every step has one of seven *shapes* as far as windows go (lemma `ShapeOfStep`):
  it changes windows one by one without touching number, type or visibility, opens
  one, switches, renumbers one, closes one, or ends the program.  `WinInv` (records
  well formed, the buddy list shown only for an owner that has one, keys of the
  buddy list active only where it is shown) and `VisibleIsCurrent` are inductive
  over the shapes instead of over twenty-five actions.
* `NumbersAreDistinct` needs that `screen_get_new_refnum` finds a free number: were
  all numbers from 1 taken, the open windows would be more than there are
  (`NewRefnumIsFree`, by cardinality).
* `StatusKept` (the status window is open while the program runs) is what the
  account invariants need: a window to inherit.  `AcctInv` says that counts are
  exact, that owners are listed and that the list has no account twice; its steps
  move windows between owners, and the lemmas `ExactAdd`, `ExactRemove`,
  `ExactMove` and `ExactInherit` say what that does to the counts.
* `CountsAreExact`, `OwnersAreListed`, `UnlistedAreFreed` and `TypeCorrect` follow,
  and `WindowsAndAccountsAgree`, which is what the run checks.
* `CurrentStaysOpen` and the refinement `WindowsAsPromised` hold if the status
  window is never skipped (`StatusWin \notin Skippable`), which the code does not
  enforce; run `dangling` shows why it is needed.

`Windows_proofs`, second half: `InputLine`, for any size of the buffer, width of the
screen, length of the history, keys, strings and commands; assumed is only that no
command's name begins with a blank and that "/" can be typed (`PlaysAssumption`).
`InputIsSound` (run `windows`'s `InputSound`) and the refinement `InputIsLineEdit`.

* The invariant (`InputInv`) says of the line: the cursor is on it or the line is empty
  (`CursorOk`); a line that is recalled is one of the history unless that was cut
  (`HistOk`); and where the completion of an argument begins lies behind the blanks
  before it (`BeginOk`).  `InputSound` promises that completion takes a negative length
  (`"behind"`) only in two places of the line; that it does not in a second completion,
  which starts from `begin` and not from the cursor, is what `BeginOk` is for.
* Each handler is an operator from line to line.  A lemma for each says (`Ok`) that it
  keeps the invariant, misuses memory only in a known way (`HarmOk`), makes a step of
  `LineEdit` or none (`Edits`), and asks for a redraw if what is seen has changed.
* The screen shows what was drawn last (`Seen`).  `screen_draw_input` draws the part of
  the line around the cursor; that the cursor is on what is drawn is arithmetic about
  `View`, which divides by the width.

`Callbacks_proofs`, first half: `PorkEvents`.  `InsideCountsHandlers` (the counter of
each type is the number of its handlers that are running) and `EveryHandlerOnce` (none twice for an event;
all of them unless the event was taken over or generated again meanwhile).  `has_run`
is one flag for all the events of a type, so the invariant has to say whose it is:
the newest event of that type and account on the stack.  An event that was not
generated again has the flag of all it ran (`Remembers`), and what has the flag it
ran, unless handlers of the type were running when it began (`Credits`); the others
are `nested` (`Newest`).  A number that is given out again is no longer among those
that an event ran (`Forgetting`), which is why adding keeps the two.

`Callbacks_proofs`, second half: `PorkTimer`, as the instance `Timers`, for any
intervals, negative ones included (`cmd_timer` takes them).  `TimerInv` is `TypeOK` with: numbers not given
out yet are in no list (`Unused`), the walk stands on listed timers unless it has
strayed (`Walking`), timers have accounts (`OwnersExist`), and runs had and runs
left add up to what was asked (`Counted`).  `TypeOK` alone is not inductive: a
visit would read a timer that is gone.  The search for the next lower number needs
that a bounded set of naturals has a largest element (`LargestExists`).

`PorkAcct_proofs`.  `AcctSessionAgrees`, `AcctAttemptsSound` and the refinement
`AcctImplementsLifecycle`.  `pork_acct_disconnected`, `pork_acct_reconnect` and
`irc_connect_abort` call each other, and between their calls the flags do not agree;
so the lemmas are about operators: from a state in which an attempt is under way
(`Trying`) or over (`Idle`), every state that an operator may return is `Good`, the
invariant, and the pair of states is one that the lifecycle and the pacing of
attempts allow (`Leads`).  Each action is then a choice among good states.

`PorkIo_proofs`.  `SourcesSound` (run `io`'s `IoSound`) and `NoStaleCalls`.  The list
is a sequence without duplicates, ordered by `Leq`.  Every source that was there when
a walk began and was not visited lies at or after the place where the walk goes on
(`Placed`), what is added meanwhile is at the head (`FreshFirst`), and the keyboard's
source, which was added first, is the last of the list (`Keyboard`): that is why its
handler, which runs any command, can delete every other source under the walk and the
walk still does not stray: nothing comes after it.

`Transfers_proofs`.  `TransfersAgree` (run `transfers`'s `TransfersSound`).  The
invariant: unless freed memory was used, a transfer has a source exactly if it has a
descriptor, which is open, its own, and the one its source watches (`Linked`); and
unless a transfer was got twice every open descriptor of theirs is watched
(`Watched`).  `transfer_abort` and its callees are operators again, and each keeps
both, or uses freed memory in one of the ways of section 6 (`Whole`).

Second half of `Transfers_proofs`: `AimTransfersAgree`, of `AimTransfers` as the instance
`Aim` of `MCTransfers`.  `AimTransfersSound` says little about the states in between: that
no freed connection is used holds because of what a connection and its transfer know of
each other at each callback, and inside `aim_kill_all_conn`, whose loop calls handlers
that end transfers while half of the connections are gone.  The invariant (`AimInv`) has
three parts.

* `Typed`: a connection and a transfer are named by whom they belong to, and only
  transfers that were made are named.
* `Known`, in states where a session may have been lost but nothing else out of the
  ordinary happened: a file that is being sent has a connection, and once it is active
  one whose death will be told to it (`Marked`); so after the loop only peers being
  dialled are left, and no active file that is sent (`Alone`).
* `Quiet`, while nothing out of the ordinary happened at all.  Between callbacks
  (`Sane`) every connection is that of its transfer or has been closed in
  `aim_file_recv_accept` (`Owned`); exactly one of a connection and its transfer is
  watched, for the connection's descriptor (`Heard`); every source has an open
  descriptor of its own, and every descriptor a source (`Sources`).  In the loop
  (`Shutting`) no connection is watched any more and the descriptors are told apart by
  the connections alone; when it ends, nothing is left unless a transfer was offered or
  received, which is what makes the state no longer calm.

As before, each function is first shown to do to the fields of the state what it says
(`AbortInSafe`, `CompleteIs`, `GetIs` and their like), then to lead from `Right` to
`Right`, and the actions are choices among such states.  Descriptors and lengths are
any; it is the two reference numbers of the run that were the bound.

`IrcLines_proofs`.  `WrittenInOrder`: what a server has been sent is the login and
then every line typed since it was logged in to (`SentInOrder`), none missing unless a
write failed (`SentOrLost`), and the queue is what was typed before there was a
descriptor (`QueueIsEarly`).  `LinesAsTheyWereSaid`: `IrcInput` implements
`LineStream`.  The invariant (`Whole`) is that there is a function `off` giving where
each line that was said and not handled ends in `input_buf` and the bytes under way
together, rising, at exactly the newlines whose line is not blank (`Delivers`); saying
a line extends `off`, dispatching cuts it at the bytes that were read, and a blank
line moves nothing.  `BufferFits`: what is left in the buffer leaves room for more.

`IrcRoster_proofs`.  `ChatIsSound` (run `roster`'s `ChatSound`) for any nicks, any
number of messages under way and any behaviour of the other members, and its second
half alone, `LeftStaysLeft`.  `ChatSound` speaks of moments when nothing is under way;
what makes it true is what is.  The invariant (`IInv`) says that there is a *history*
`h` of the channel: `h[0]` is the state the client has heard of, `h[Len(wire)]` the one
the server is in, and message `i` tells of the change from `h[i - 1]` to `h[i]`
(`News`, one disjunct per kind of message).  A step of the server adds to the end of the
history (lemma `Told`), reading a message takes its beginning off, and each handler is
shown to do to `user_list` what its message says was done to the channel.  With it:

* the list of users is the one of `h[0]` unless something kept news from it (`Follows`);
* at most one JOIN is unanswered, and no PART of the user's comes after it (`Streams`);
* if the client has no chat but `h[0]` has the client in the channel, then a PART is
  under way to the server or the news of it to the client, and a chat that was left
  waits for no answer (`Client`): so no answer brings it back.

The last two hold while no command was given in a hurry (`~hurried`).  That the list agrees needs that every
nick begins with a letter (`Letters`), because `irc_handler_353` strips what does not
(section 6); `LeftStaysLeft` does not need it.

`IrcRoster_proofs`, second half.  `WhatIsSaidIsSound` (run `roster`'s `SaidSound`) for
any delay between automatic answers, any spellings of a name and any set of options.
An operation of `pork_msg.c` or `pork_chat.c` is one step, but scripts run in its
middle, and it uses afterwards what it looked up before.  The invariant (`TalkInv`)
is therefore one of the states in between as well (`Fine`), and says besides what
`SaidSound` says:

* the last automatic answer of an absence is in the hash, at its spelling and with its
  age (`Paced`), since the hash is made anew only when an absence begins or ends;
* who is ignored is in the chat, so that leaving it ends the ignoring (`Unheard`), and an
  account that is offline counts as not idle at the server (`Served`);
* without scripts a chat never goes on without its window (`Harmed`).

Each helper is shown to keep `Fine` and to leave alone what it leaves alone, scripts to
leave what was shown and sent as it was (`Ran`: a window that is there now and was not
before is noted as opened), and each operation to take a state in which nothing was
shown to one where what is shown as sent is what was sent (`Still`, `Adds`, `Done`).

`AimSession_proofs`.  `SessionLinks` (run `session`'s `LinksSound`) for any number of
connections, rooms and attempts.  `LinksSound` speaks of sources, `bos_conn` and rooms;
that it stays true depends on what the servers still owe: an answer that creates a
room must find it neither there nor asked for again.  So the invariant (`SessInv`,
theorem `SessionInvariant`) says, as long as nothing freed was used:

* what a connection is owed fits what it is for (`Owed`), and a room is asked for once,
  and not if it is there (`Once`);
* a source watches a connection that is in `connlist` in the state it was registered for
  (`Matched`), one login is under way at a time and none while the account waits to
  reconnect (`OneLogin`), an account that is online has its basic connection and only
  such an account has others (`Online`, `NavKnown`);
* the list of rooms has no room twice (`Listed`), rooms and their connections point to
  each other (`Paired`), a window shows a room that is there (`Shown`), and a room has
  its window (`Kept`), and a source unless the account is about to rejoin (`Awake`);

and otherwise that one of the known ways was taken (`Excused`).  `Once`, `Kept` and
`Awake` are promised until an attempt was given up with rooms or their server still
known, a room was joined twice at once, or a script kept a room whose window closes
(`Clean`).  The operations of `pork_aim.c` call each other while a part of this does
not hold: a connection is killed before its room is freed, and an account that parts
from its server still counts as online.  The lemmas state what holds in between
(`Half`, `Parted`) and what a step may not undo (`Worse`, `Fewer`); each action is then
a chain of operators from good to good.

What the proofs found.

* `SessionAgrees` was false for `AutoReconnect = FALSE`, which no run had as a value:
  `pork_acct_disconnected` deletes an account that still counts as connected after
  the transport was set to NULL, and the QUIT goes through it (section 6, accounts).
  The invariant says that the bare use has AUTO_RECONNECT on.
* `Transfers` had the order of `transfer_list` as state, which nothing depends on;
  it is the set of numbers now.

Only model-checked:

* Liveness, and all that is under fairness: no prover here has `ENABLED`.
* `WindowRing`, `Buddies`, `AimSsi` and `Tlv` with `TlvChains`: the loops of the code
  along pointers, and the nesting of chains, are `RECURSIVE` operators there, over
  which no SMT proof is possible (`SortedRing`, `RingImplementsWindowSet`,
  `ListSound`, `CursorStays`, `ListsAgree`, `WireSound`, whose other half is the fold of
  `OftChecksum`).
* `Scrollback` and `IrcModes`, whose promises are about what a loop computes over all
  messages or all letters of a line (`ScreenAgrees`, `ImplementsViewport`,
  `ModesSound`): induction over data.
* `SizeFollows` of `PorkIo` and `EveryLineHeard` of `IrcInput` are liveness.

## 6. Where code and documentation disagree

Found while modelling, and, where it says so, while proving.  The models follow the
code; properties carry the exception in their statement (the nested event of
`HandlersOnce`, `lost` in `StrayOnlyIfLost`, `again` in `TransfersSound`, the world of
`ChatSound`, the lists of known ways in `LinksSound`, `AimTransfersSound`, `ListSound`
and `SaidSound`), so that they say exactly when the promise is kept.

Windows, I/O and the screen
* `pork_screen.c:577`: closing the current window while all windows are skipped
  leaves `cur_window` on freed memory (run `dangling`, the one listed finding).
* `pork_io.c`: `pork_io_add` on a key that has a source frees the old node at once,
  although `pork_io_del` takes care not to; a walk that stands on it strays.
* `pork_swindow.c`: `swindow_redraw` does not set `bot` when the top message exactly
  fills the screen; `bottom_blank` and `bottom_hidden` may be stale;
  `swindow_set_wordwrap` may make a count underflow; matches found by
  `swindow_print_matching` may be freed by the pruning of what it prints; the buffer is
  not pruned while scrolled up; what `win clear` removes cannot be scrolled back to
  (`doc/help/win/clear`).
* `pork_imwindow.c`: a log that cannot be written reports it in the window, which logs.
* `pork_input.c`: `/input send` with nothing sets the cursor before the prompt; with
  too long an argument it sends what is on the line, and without history; HISTORY_LEN
  lowered while a line is recalled frees it; completion reads before the start of the
  line in two cases and never completes commands of a protocol; a prompt as wide as
  the screen leaves no line.

Events
* `pork_events.c:281`: `has_run` is cleared before `event_should_generate` is
  asked, so an event refused as recursive makes the outer one forget what has run;
  with RECURSIVE_EVENTS handlers run again or are missed (`doc/help/main/set:404`).
* `pork_events.c:244`: `event_del_type` does not advance past a handler it does not
  delete and never ends (`doc/help/event/del:6`).
* `pork_events.c:330`: `event_generate` starts again at the head after each handler, so
  an event can go on for ever.  `EventsEnd` says in which ways: handlers that go on
  adding handlers of the type (each replacing itself is enough), or one that goes on
  generating the event again, with RECURSIVE_EVENTS, while another takes over the
  inner event and leaves the flags of the rest cleared.  Without either of the two in
  `Feeds`, or without the hang of `event_del_type`, the property fails.  Deleting and
  other events cannot keep it going.
* `pork_events.c:77`: the table of names is searched by bisection and is not sorted
  (SEND_NOTICE before SEND_LINE), so RECV_CHAT_MODE is not found
  (`doc/help/event/add:2`).

Timers
* `pork_timer.c:118`: the timer and the saved next one are used after the command,
  which may have deleted them (`doc/help/timer/add:7`).

Accounts
* `pork_acct.c:518`: RECONNECT_TRIES 0 still makes one attempt
  (`doc/help/main/set:401`).
* With AUTO_RECONNECT off (`doc/help/main/set:9`) a session that is lost while online
  is deleted while it still counts as connected: `pork_acct.c:495` deletes,
  `pork_irc.c:66` has set the transport to NULL and `452` sends QUIT through it
  (`pork_irc_output.c:50`, `pork_inet.c:35`).  Found by the proof of `SessionAgrees`.
  `pork_acct.c:161` does the same with PART when an account is given up or
  disconnected while it waits.
* `pork_irc.c:256`: `SSL_free` runs twice on a failed handshake.
* `pork_acct.c:535`, `pork_irc.c:100`: the first connection and a hanging handshake
  are never timed out (`doc/help/main/set:42`).
* `irc_connect_abort` closes the descriptor number of the attempt before, which may
  be another part's by now.

Channels
* `pork_irc_input.c:830`, `749`: a rejoin adds to the list of users that is there.
* `pork_irc_input.c:810`: the answer to a JOIN that crosses a leave puts the user
  back in (`doc/help/chat/leave:2`).
* `pork_chat.c:723`: if the announcement of a leave comes out empty the user stays
  listed (`doc/help/main/set:146`).
* `pork_irc_input.c:712`: 353 strips every leading character that is not a letter,
  so a nick may lose some of its own.

What the server tells of modes and nicks (`pork_irc_input.c`)
* `PREFIX=` is compared from its own P on, never matches, and ends the loop over 005:
  CHANMODES and NICKLEN after it are not seen.
* `irc_chanmode_has_arg` knows only the last letter of each group of CHANMODES; a
  removed counted letter other than `l` takes an argument that is not its own; a list
  letter such as `q` becomes a mode of the channel.
* 433 during the login asks for one more underscore for ever if the server cuts nicks
  to one that is taken; 432 and 437 are not retried.
* The user's modes survive a reconnect; ranks after a rejoin are updated for the first
  known name only.
* `1347`: the loop of the 302 handler over the chats does not advance past a chat that
  has not the user, and the client hangs; no property is about that.

Lines
* `pork_irc_input.c:444`: a refused line drops the rest of what was read
  (`doc/help/main/event:345`); `420`: what is left over survives a reconnect.
* `pork_inet.c:84`: a line longer than the buffer closes the connection.
* `pork_irc_output.c`: lines typed before the first connection are queued and never
  sent; a dead source with a queue makes `irc_flush_outq` spin; an error of
  `irc_event`'s read does not close.

What is said
* `pork_msg.c`: `pork_notice_send` never calls `send_notice` (`doc/help/main/notice`:
  "Sends a notice."); the automatic reply hashes a name with its case and compares it
  without, so a correspondent may get more than one in the ten minutes of the comment
  at line 82; on IRC there is none.
* CTCP_BLOCK_LEAKS is tested the wrong way round; `report_idle` is never set; IDLE_AFTER
  is compared in seconds and documented in minutes.
* `/chat who` and `/chat topic` in the window of a chat that is not joined read NULL.
* A script that closes the query window during RECV_IM, RECV_NOTICE or SEND_IM, or
  leaves the chat, frees what its caller goes on to use.

IRC transfers
* `pork_transfer.c:379`, `494`: `transfer_get` and `transfer_send` use the transfer
  after `irc_file_accept` or `irc_file_send` failed and freed it.
* `transfer_find_filename` returns `-EEXIST` where its caller compares with -1, and
  goes on without a file.
* `irc_file_send_ready` (`pork_irc_dcc.c:79`) reads the acknowledgement after the
  write lost the transfer.
* `file get` a second time, or on a transfer that is being sent, leaves the first
  descriptor behind.
* The acknowledgement has four bytes: a file of 4 GiB or more is never seen to be
  complete.  An empty file that is received is reported as lost.  A RESUME in the
  middle changes the offset.
* `pork_acct.c:59`: deleting an account forgets its transfers; their sources stay.
* `commands/pork_cmd_file.c`: `file cancel <refnum>` passes NULL to the conversion
  of the number (`doc/help/file/cancel:1`).

AIM transfers (`pork_aim_proto.c`, `libfaim/ft.c`, `conn.c`)
* `aim_conn_kill` leaves its caller's pointer as it is, and `transfer_get` clears the
  handlers of the freed connection; a `getpeername` that fails after the accept, and a
  connection that fails at once, lead to freed memory as well.
* Offers that wait when the session is lost keep a listener that is gone; a file that
  is being received has no handler of its connection's death any more, so its source
  stays on a closed descriptor; `file send` without a connection reads NULL.
* Cancelling while dialling leaves the socket; a `getsockname` that fails leaves the
  connection.  The peer's cancel is ignored, an empty file is always lost, the checksum
  is computed and never compared, and the comment at `ft.c:116` is false for chunks of
  odd length.

Buddies (`pork_buddy.c`, `pork_slist.c`)
* `buddy_remove` takes a buddy out of the hash by its displayed name, not by the
  normalized one it is stored under: an alias leaves it there, or takes another out.
  `group_remove` does so for all.
* `slist_del` does not expect a group that still has lines; `bot` dangles after the last
  group; `cmd_blist_remove` reads the name after the free; a script that removes the
  buddy during SIGNON or SIGNOFF frees what is used next; buddies stay online over a
  reconnect, as `buddy_offline_all` has no caller.

The AIM session (`pork_aim.c`, `pork_aim_proto.c`, libfaim)
* If the connection to BOS cannot be dialled, the freed one is used; when the
  authorizer hangs up, nothing hears of it; a failed reconnect stays in `connlist`.
* `aim_kill_pending_chats` frees the rooms that wait for chatnav and leaves
  `chat_create_list` pointing at them; `aim_setup` resets neither `bos_conn` nor
  `chatnav_conn`, which point at freed connections after a loss.
* `aim_kill_all_conn` frees the data of rooms that stay listed; a redirect whose request
  was cleaned out of the cache copies NULL; a room joined twice is there twice; a window
  closed while a script vetoes the leave stays pointed at; a failed redirect to chatnav
  leaves its room pending; a leave that is forced is not rejoined with AUTO_REJOIN.

The server's list (`libfaim/ssi.c`)
* "exact copy" (`ssi.c:8`) does not hold over a refused change, nor over an item that is
  freed while its ADD waits.
* With an empty list the first item and the master group share the key (0, 0), and the
  client modifies it for ever; a command before the list was asked for stops
  synchronisation for good; permit lists are doubled by each login; empty groups stay;
  what another client changes is not handled.

Chains (`libfaim/tlv.c`, `bstream.c`, `im.c`, `locate.c`)
* A chain that was read is in reverse, so "nth" counts from the last; one trailing byte
  makes `aim_tlvlist_read` run for ever; an element longer than what is left reads on;
  a number is read from a value too short for it.
* `locate.c:821`: "Inverse of aim_info_extract()" — the member-since time goes out as
  another type.  `im.c`: "always pad the ending with a NULL" — nothing does.
* `/mexyz` from a client without HTML arrives as an action that lost a letter; a chat
  line of about 1152 bytes does not fit its frame and is not sent, without a word;
  `strip_html` cuts the received text at its first entity and does not restore it;
  cookies of chat invitations stay cached; a late error after `aim_cleansnacs` leaves
  the queue of profile requests waiting until the next connection.

## 7. Not modelled, and what comes next

Never: text and layout (formats, colours, printing), the grammar of commands,
preference tables and files, the glue to Perl (what a script may *do* is in every
model's environment), packet formats of OSCAR beyond their chains, code taken from
other projects.

Next: compositions, `PorkScreen` with `IrcRoster` (a room and its window, scripts that
veto) and `PorkAcct` with `PorkIo`.
