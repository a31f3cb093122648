# TintempPlusPlus in TLA+

TintempPlusPlus is a Discord bot in C++ on top of D++ 9.0. Its one command with
state is `ttt`: a user challenges another, both confirm with a button, the bot
turns a message into a 3x3 board of buttons, and the two play tic-tac-toe. This
directory specifies that command, model-checks it with TLC and proves its main
properties with TLAPS. Line numbers refer to `src/TintempPlusPlus/`.

## The system

| part | state it keeps | operations | source | modelled by |
|---|---|---|---|---|
| class `ttt` | players, board, winning flags, turn, counter, result | constructor, `init_game`, `set_status`, `fetch_winner`, `swap_turn`, `fetch_ttt_turn`, `fetch_ttt_components` | `tictactoe.cpp:10-144, 255-366`, `tictactoe.hpp` | `Board`, `Game` |
| `ttt_list_g` | a `std::list` of pairs (`ttt`, `confirm_button`) | `push_onto_list`, `erase_one_from_list`, `set_origin`, the loops of the button handlers | `tictactoe.cpp:212-253, 372-375, 531-534` | `TttList` step by step; `TttBot` |
| command handler | - | `newCommand`, `tictactoe` | `main.cpp:62-97, 109-222` | `TttBot` |
| button handler | - | `on_confirm_click`, then `on_ttt_interaction`, for every click | `main.cpp:71-84`, `tictactoe.cpp:369-704` | `TttBot` |
| REST callbacks | what each closure captured (mostly a list iterator) | store the origin message, fetch and store the "(1/2)" message, announce a result, erase the entry | `main.cpp:204-220`, `tictactoe.cpp:419-439, 595-671` | `TttBot` |
| D++ and Discord | messages, requests, completions | external | vendored headers | `TttBot`, as the code uses them |
| `UniqueID` | `static int nextID` | `++nextID` | `uniqueid.hpp`; used at `tictactoe.cpp:24, 48, 184` | `Buttons` |
| logger, `ping`, `main`, `timer` | none that matters | - | `utility.*`, `main.cpp`, `timer.*` | not modelled |

How they interact. A gateway thread of D++ runs the command handler and the
button handler, one event at a time; every shard has a gateway thread of its own
(`discordclient.h:175-181`), and `main.cpp` leaves the number of shards to
Discord (`cluster.h:499-507`), which asks for one until the bot is in many
servers. Handlers post requests and return; D++ carries requests to different
endpoints out in any order and hands each completion, in order, to another
thread, which runs the callback (`queues.h:105-111, 224-231`). Callbacks post
more requests: the chain reply, fetch, store for the first confirmation, and the
chain update, announce, erase for the last move. All these threads share
`ttt_list_g` and `UniqueID::nextID` without a lock. Users click what they *see*,
which is what Discord was last told, not what the bot believes.

What is hard here: a press that overtakes the callback which stores the message
it needs; a click on a board that was already decided; board updates that
overtake each other; two callbacks with an iterator of the same entry; one click
answered twice; requests that fail in the middle of a chain; entries of other
people that decide, through the scan of the list, what happens to a click; a
list that several threads change at once; and buttons that outlive the process
that made them. `PROJECT.json` lists these hazards with their lines.

What makes each part correct. A board: the right result, fair turns, nothing
taken back. A confirmation: no start without both players, one message chain.
The list: an entry leaves it after its game ended and was announced, and it does
leave; a loop over it meets every entry. A screen: never wrong, at most late.
Entries: none disturbs another, and a button is for the entry it was made for.

## The modules

- **`Board`** - class `ttt` as operators on a record; no state machine. `Play`
  is `set_status`, `fetch_winner`, `swap_turn`, in the order of the handler;
  `MayPlay` is the guard, which does *not* consult the result; `Render` is what
  the message shows. `fetch_winner` is written as the eight lines of its code.
- **`Game`** - one started object and every order of accepted clicks on it.
  `MagicLines` is an independent definition of three in a row (cells of a magic
  square that sum to 15). `MCGame` instantiates it.
- **`Lifecycle`** - the abstract specification: absent, asked, playing, over,
  erased, each once and in this order.
- **`TttBot`** - the bot with its environment. Variables and code:

  | variable | code |
  |---|---|
  | `last`, `live` | the ids given out; the nodes of `ttt_list_g` |
  | `game`, `origin` | the first of a pair; its `have_origin` |
  | `pressed`, `replied` | the second of a pair: `is_player_k_confm`, `replied` (and with it the stored game message) |
  | `fault` | the first undefined behaviour; nothing happens after it |
  | `ask`, `reply`, `screen`, `announced` | what the channel shows: the invitation, the "(1/2)" message that becomes the board, the board on it, the results |
  | `clicks`, `requests`, `done` | clicks not handled yet (in order), requests not carried out yet (any order), completions whose callback has not run (in order) |
  | `declined`, `lost` | history: a Nah that counted; an invitation that was sent and whose answer was lost |

  Actions and code: `TttCommand` is `tictactoe`; `FirstYes`, `SecondYes`,
  `Decline` and `IgnorePress` are the paths of `on_confirm_click`; `PlayCell`
  and `RefuseCell` those of `on_ttt_interaction`; `SetOrigin`, `ReplySent`,
  `StoreReply`, `MoveShown` and `ResultShown` are the callbacks. `TurnedAway` is
  the early return of the scan at an entry the user does not play in; it decides
  a press on a button, and for a click on a board whether the update is the
  first answer. `Serve` carries out or refuses a request, and reports what it did
  or, when the answer is lost, an error; `ClickAsk` and `ClickBoard` are the
  users.
- **`TttList`** - `ttt_list_g` as the `std::list` of the project's compiler (MSVC
  v142): a ring of nodes through a sentinel, and a size, which `empty()` tests.
  A step is one load or store of what another thread may change: `PushBegin` to
  `PushFront` are `push_onto_list` on a gateway thread, `EraseBegin` to
  `EraseFree` are `erase_one_from_list` on the callback thread, and `ScanBegin`
  to `ScanHit` are the three loops, `ScanLeave` the early returns in them. It
  shows what the atomic steps of `TttBot` rest on, and when that fails.
- **`Buttons`** - which entry a press or an origin message reaches, when the ids
  are taken by interleaved loads and stores (`LoadID`, `StoreID`) of several
  shards and the process may be restarted at any point (`Restart`). `Order` is
  the order in which the compiler evaluates the three ids of an entry, which C++
  leaves open. `Matching` and `Counting` are the scan of `on_confirm_click`;
  a second YES starts a game, which takes ids for its squares.
- **`MCTttBot`**, **`MCList`**, **`MCButtons`** - users, squares, shards and
  symmetries for TLC.
- **`BoardProofs`**, **`GameProofs`**, **`TttBotProofs`**, **`ReplyProofs`**,
  **`MoveProofs`**, **`ListProofs`**, **`DamageProofs`**, **`ButtonsProofs`** -
  lemmas and theorems.

How they compose. `Game` and `TttBot` are built on `Board`; `TttBot` implements
`Lifecycle`. `TttBot`, `TttList` and `Buttons` look at one bot from three sides:
`TttBot` has handlers and callbacks as single steps and fresh ids, `TttList`
opens the list operations and `Buttons` the ids. Together their state space is
out of reach, and the properties of the two small modules say exactly what the
large one takes for granted: an intact list that a loop sees all of
(`ListIsIntact`, `ScanMissesNothing`) and a press that reaches its own entry
(`ForeignPressHasCause`, `OriginIsOwn`), each with the condition under which it
may fail.

Decisions worth knowing:

- In `TttBot` a handler and a callback are one step each.
- A list iterator is the uid of its node: `std::list` keeps iterators valid until
  their node is erased. Entries are pushed at the back with growing ids, so the
  order of the list is the order of the ids and the list is a set.
- The undefined behaviour the code can reach is explicit: `"origin"` is
  `embeds.front()` of an empty vector, `"iterator"` the use of an erased node,
  `"capture"` the dangling reference of `tictactoe.cpp:631`. The last is a
  choice: the callback finds the value or it does not.
- An answer to a click that nobody waits for (the warnings, the edits of the
  invitation's embed) is left out, except for what it does to the answer that
  follows: an update of the board that comes after a warning succeeds only if
  the warning failed, and `get_original_response` may return a warning in place
  of "(1/2)" (`warned`).
- A request ends in one of three ways: carried out and reported, refused, or
  carried out and reported as an error, because the answer was lost or could not
  be read (`queues.h:47-74`). The bot cannot tell the last two apart. It shows in
  `main.cpp:214`: the invitation is in the channel, its buttons work, and the
  origin message is never stored. After a lost answer to a result, the result is
  in the channel and its entry stays in the list.
- `EXPIRED` and `cancelled` exist in the code and nothing sets them.
- `TttList`: memory is sequentially consistent and a node is never used again
  after it was freed; both make the model kinder than the program, so what it
  shows broken is broken. A behaviour ends when a freed node is touched. The
  history variables `overlap` and `clash` say whether two changes of the list,
  or two changes at its end, have ever been under way together. An erasure
  begins with an entry that is listed; `IteratorFaultHasCause` of `TttBot` is about
  the other case.
- `Buttons`: a push, a loop and a callback are one step; all entries are between
  the same two players, since what entries of others do to the loop is the
  matter of `TttBot`. An invitation appears with its answer, without it, or not at
  all. A message posted before a restart may still appear after
  it. `mixed` says whether two increments of the counter have ever overlapped.

## The runs

| run | question | bounds | size |
|---|---|---|---|
| `game` | Is one board decided rightly and finally under every order of clicks? | none but the 9 squares | 6 thousand states |
| `one_ttt` | What survives when clicks, requests, failures and callbacks of one command overlap? | 1 entry, 2 under way when a user clicks, 3 squares each for ann and bob, a stranger who clicks, failures and lost answers | 0.32 million |
| `two_ttt` | Do two entries that share a player stay apart, from the challenge to the erasure? | 2 entries, 1 under way when a user clicks, the shortest win, failures and lost answers | 1.2 million |
| `live` | Is an ended game erased and a first press answered? | 1 entry, 2 under way, no failures | 45 thousand |
| `list` | What can unsynchronised threads do to the list? | 2 shards and the callback thread, 3 pushes | 0.51 million |
| `buttons` | Can a press or an origin message go to the wrong entry? | 2 shards, 2 commands, 1 restart, 1 id for the squares of a board, lost invitations and answers | 0.34 million |

`MaxTtt`, `MaxInFlight`, `Aim` and `Mentions` are the bounds of `TttBot`.
`MaxInFlight` limits when a *user* clicks, not what the bot and Discord do with it:
one click may still lead to several requests and callbacks. Two under way are the
winning move and the move before it, the winning move and a late click, two updates
of the board that overtake each other, or a press and the callback it races. In
`one_ttt` and `live` ann's three squares are a row and bob has three of his own, so
when ann wins with her third bob has one left and it is his turn: if he clicked
before the board was disabled, his move is played and announced after the win. One
entry is enough for the races of one command.

`two_ttt` is about the entries themselves and almost sequential: a user clicks only
when nothing is under way, so what needs two moves at once is left to `one_ttt`. Ann
and cat challenge bob in any order, or one of them twice. Two games of the same
players go on side by side; of different ones, the later game starts only after the
older entry has gone, because the scan does not let its challenger past it. A second
entry is enough for the scan, which knows only "an earlier entry" and "a later one".

`MaxPush` bounds `TttList`: three entries give an erasure a first, a middle and a
last entry, with a push next to it, and two gateway threads and the callback
thread give two overlapping pushes and a traversal next to a push and an
erasure. `MaxCmd`, `MaxRestart` and `CellIds` bound `Buttons`: two entries are
what a confusion of ids needs, one restart makes old buttons, and that a board
takes one id instead of nine only changes how far the counter moves. Both runs
permute the shards (and the players), which no definition tells apart; they check
invariants and action properties only, for which that is sound.

Every action fires in some passing run. Deadlock is not checked: a channel in
which nobody clicks is at rest.

The properties:

- `EraseOnlyFinished`, `FollowsLifecycle`: whatever fails, an entry is erased
  only after its game ended and its result was shown; phases are never skipped
  or repeated.
- `ScreenIsPast`: a board on the screen, or on its way, shows only what was
  played, and is disabled only when the game is over. Overtaking updates leave
  it late, never wrong.
- `BothPressed`, `ReplyPathIsSingle`, `OnlyTheClickedEntry`: starting a game.
- `NoGameGoesBack`: a press that comes twice or a callback that comes late starts
  no game again and takes nothing back.
- `ResultIsOfItsMove`: the result is read late, but a result message names the
  player of the move it reports, and each move is reported once.
- `OriginFaultHasCause`: a press meets a missing origin message for two reasons
  only. It overtook the callback of its invitation, or the invitation is in the
  channel and its answer was lost. No refused request and no result gets there.
- `IteratorFaultHasCause`: a callback meets an erased entry only after the result
  of another move of the same game was shown. Both happen in `one_ttt`: the moves
  are the winning one and the one before it, or the one played after it.
- `EveryGameIsRight`, and in `Game` `ResultIsRight`, `AgreesWithMagic`,
  `TurnsAreFair`, `NothingIsTakenBack`: playing it.
- `ResultInv`: a result on its way or shown is that of the game, and final, though
  moves are played after it. `EntryInv`: what the proofs rest on.
- `FinishedIsErased`, `PressIsAnswered`: what must happen. `EndedIsOnItsWay` and
  `PressIsOnItsWay` are their safety half: at every moment a request or a
  completion is under way that leads there, so no callback drops the thread.
- `ListIsIntact`, `EmptyIsRight`: only changes that overlap at the end of the list
  damage its links, and only changes that overlap spoil its size. The erasure of
  an older entry next to a push is safe.
- `NeverOntoFreed`, `NoEntryTwice`, `ScanMissesNothing`: a traversal steps onto no
  freed node and meets no entry twice even in a damaged list, and in an intact
  one misses no entry that was there all the time. What remains is `ScanHit`: the
  node it stands on is freed.
- `ForeignPressHasCause`: a press counts for the entry of another invitation only
  after overlapping increments of the counter, or for an entry pushed after a
  restart. Both do happen; nothing else makes it happen, in whatever order the
  ids are taken.
- `OriginIsOwn`: an origin message is stored only in its own entry, unless
  increments overlapped. A restart is harmless here, as nobody waits any more for
  the answers of the old process.

**Fairness.** `FairSpec` has weak fairness of the gateway thread, of the callback
thread and of Discord, separately: each is a loop that takes the next item as
soon as there is one. No user is assumed to do anything. `live` assumes that no
request fails and that there is one entry; both are needed. A failed update or
announcement is not retried by the code, and `finished_stays` shows what a
second entry does. Undefined behaviour counts as an end (`Crashed`).

### Where the code does not do what its comments say

Each of these runs is expected to find its property violated.

| run | property | what happens |
|---|---|---|
| `heard` | `PressIsHeard` | a player is told "that's not your button!" because an older entry belongs to other people |
| `declined_starts` | `DeclinedNeverStarts` | Nah sets the same flag as YES, so the other player's YES starts the declined game |
| `wrong_winner` | `WinnerIsNamed` | bob's fourth move is on its way when ann wins; its callback reads WON and announces that bob won |
| `not_deployed` | `StartedIsDeployed` | a second YES handled before the "(1/2)" message is stored sends the board to message id 0 |
| `finished_stays` | `FinishedIsErased` | with two entries one click is answered twice, the update is refused, and the ended game is never announced or erased |
| `lost_entry` | `PushedIsListed` | a push overlaps the erasure of the last entry: the new node is linked behind the erased one and no loop reaches it |

The wrong winner is named because the callback of a move reads the result when it
runs and names the user of its own click (`tictactoe.cpp:604-609`). A late click
after the win does it too, and so does the opponent's next move when the update
of the winning one fails and the board stays enabled; `ResultIsOfItsMove` is what
remains true. Two more faults are not stated as runs of their own. Two results of
one game mean two callbacks with its entry, and the second uses or erases an
erased one (`tictactoe.cpp:604, 637`): `one_ttt` reaches it, and
`IteratorFaultHasCause` says that nothing else leads there. And a press handled
before `set_origin` has run, or after the answer to the invitation was lost,
assigns to `embeds.front()` of an empty vector (`tictactoe.hpp:121`), with
`OriginFaultHasCause` saying the same of it.

## The proofs

Everything here holds for any users, any number of commands and of things under
way, any squares and any failures. The assumptions are `NoUserAssumption` (the
default snowflake is nobody), `PlayersAssumption` (a challenge of oneself is
refused), `BotAssumption`, `ListAssumption` and `ButtonsAssumption` (the types of
the constants; the callback thread is not a gateway thread; `Order` names each id
once).

**One board** (`BoardProofs`, `GameProofs`). That the counter reaches nine
exactly on a full board is not inductive by itself. `Good` adds what is missing:
`turns` is the number of marks (`FairTurns`), the mark to play is X exactly on
an even count unless the game is drawn, and the result is right
(`RightResult`). `PlayGood` shows that an accepted click keeps `Good`: one mark
more is counted with the cardinality theorems (`OneMoreMark`), a line never
disappears (`LinesStay`), and a drawn board takes no click because it is full
(`NoPlayAfterDraw`). `TypeCorrect`, `ResultCorrect`, `TurnsCorrect` and
`Permanent` follow. `WinnersAreMagic` compares the lines of the code with the
magic square: each hand-written line sums to fifteen (`LinesAreMagic`), and
fifteen is the sum of three numbers in eight ways only, each of them a line
(`FifteenInEightWays`, `MagicIsALine`); that the winning squares are those of the
lines, and not only include them, is an invariant of its own (`WonInv`).

**The bot** (`TttBotProofs`). The inductive invariant is
`Inv == TypeOK /\ EntryInv /\ BothPressed /\ ResultInv /\ EraseOnlyFinished /\ ScreenIsPast`.
`EntryInv` says an entry is a fresh object until its game starts and `Good` from
then on. `ResultInv` says a result that is requested, announced or reported back
is the game's and final: without it a callback that erases could not be related
to the end of the game, which happened three steps earlier on another thread.
The argument is monotonicity: every step moves each `ttt` object forward
(`Advances`), and `IsFinal` and `IsPast` survive moves forward. From `Inv`:
`TypeCorrect`, `EraseCorrect`, `ScreenCorrect`, `StartCorrect`, `GamesCorrect`,
the action properties `ClicksAreSeparate` and `GamesGoForward`, and
`ImplementsLifecycle`, which maps each step of the bot to a step of `Lifecycle` or
a stutter.

`EntriesCorrect` and `ResultsCorrect` state two parts of it by themselves.

**The reply chain** (`ReplyProofs`). `ChainsAreSingle` proves `ReplyInv`: per
entry at most one request *or* completion of the chain is under way, never after
the message was stored, and only once somebody pressed. A first YES needs an
empty `pressed`, and `pressed` never shrinks, so no second chain starts. That the
entry is still listed when the chain ends (`ReplyCorrect`) needs one more fact:
no game is over before its message is stored, because the board is clicked on
that message, and by `EraseOnlyFinished` nothing else is erased.

`PressesGoOn` proves that the chain does not break off either, when no request
fails: `PathInv` adds that a message that is fetched is there or was declined, and
that it is deleted for a Nah only. Here other people's entries do no harm.

**The moves** (`MoveProofs`). `MoveInv` (`MovesAreSingle`) is the same counting for
the chain update, announce, erase of each move: every request about a move names
its turn and its player (`MoverInv`), one request or completion per move is under
way (`MoveOK`), and an erased entry was erased for a move of which nothing is left
(`GoneInv`), so a callback that finds its entry gone is about another move. From
it `ResultsNameMovers` and `IteratorFaultsHaveCauses`. `OriginInv` follows the
answer of the invitation: an invitation that is shown has its message stored, or
its answer in the queue, or its answer was lost, and no press comes before it is
shown (`OriginFaultsHaveCauses`). `EndedGamesGoOn` assumes `OnePair`, that all
challenges that are accepted are between the same two people, however many and in
whatever order: then the scan turns nobody away (`NobodyTurnedAway`), and, if no
request fails, every update is the first answer to its click, so an ended game
always has its update or result under way until it is erased. Without `OnePair`
this is false: `finished_stays`.

**The list** (`ListProofs`), for any number of shards and entries. `CalmInv` holds
while no two changes have met at the end of the list: a push then works after the
last entry and an erasure in progress works before it (`ApartInv`), so neither
changes a link the other has read; `PushInv`, `EraseInv` and `BackInv` say which
links are half done at each step, and `ScanInv` that what a traversal has not met
is still ahead of it. From it `TypeCorrect`, `IntactCorrect`, and the action
property `ScansCorrect`. `EmptyCorrect` needs the size as well: `CountInv` relates
it to the number of entries, one ahead of them between the store of the size and
the store of the link.

**Damaged lists** (`DamageProofs`). After a clash `CalmInv` says nothing, and two
things still hold. A traversal meets no entry twice (`NoEntriesTwice`): every link
leads to a node that was linked later than the one it leaves, in the order in
which the pushes linked their nodes, which need not be that of their numbers
(`OrderInv`, existentially quantified over that order); damage makes links skip
entries but never turn back. And a traversal steps onto no freed node
(`NeverOntoFreedNodes`): until a freed node is touched, at most one sound node
leads to a given node, and it is the one an erasure unlinks it from (`SoundInv`).
Both rest on `DamageInv`: a node that is being pushed is known to its own thread
only.

**The ids** (`ButtonsProofs`), for any number of shards, commands and restarts and
any order of evaluation. While no two increments overlapped, one thread at a time
is between load and store and has loaded the current value (`CounterInv`), the
counter is above every number this process gave out (`AboveInv`), and those
numbers differ (`FreshInv`). A press can then reach another's entry only if the
invitation is of an older process (`ForeignPresses`), and an origin message
cannot at all, since only the entries and answers of this process are left
(`OriginsCorrect`).

**Only model-checked.** The liveness properties `FinishedIsErased` and
`PressIsAnswered`: fairness and ENABLED are out of the prover's reach, and what
can be said of them without fairness is proved: `PressesGoOn` when no request
fails, and `EndedGamesGoOn` under `OnePair` as well, for the reasons above. Every
other property of the passing runs is proved for all values of the constants.

## Not modelled

- The D++ library: the repository has its headers, and those of fmt, nlohmann
  json and httplib inside them, and a compiled library. These headers are nearly
  all of the repository's lines and hold declarations and third-party templates;
  there is no code of the request queue or the gateway to translate. The bot's
  own files have about 1500 lines, and what keeps state in them is mapped.
- The logger, `ping`, `main`, login, texts and colours: no state a later step
  reads. The timer is two empty files with a comment: nothing times out.
- The disabled "Confirmed" buttons, whose ids are undefined from 16 on
  (`tictactoe.cpp:163, 170`) and which no message contains.
- The text of logged errors, which the format at `utility.cpp:179` drops, and
  memory that is never released (`new dpp::message`, `new UniqueID`).
- The wrap of the counter of ids after 2^31 of them.
- Weak memory, and the reuse of freed nodes: TLC and the proofs show what happens
  up to the first access to freed memory.
- Torn reads of an entry's data (a callback that stores a message into a pair
  while a handler copies it): the data of an entry is read and written in single
  steps.
