# TLA+ models and proofs of the TTA mudlib

TTA (The Third Age) is a multi-user game library written in LPC for the DGD
driver.  The driver runs one *task* at a time: a line typed on a connection, a
call_out that is due, a connection opened or lost.  Nothing interrupts a task, a
runtime error ends it and what it did before stays, and a reference to a
destructed object is nil from then on, everywhere.  What makes the library hard
to get right is therefore not threads but state that several tasks, callbacks
and errors share: the same fact is kept in two objects, timers outlive the reason
they were started for, and a called function may destruct the caller's objects.

This directory holds TLA+ modules that model the library's core, TLC
configurations that check them, and TLAPS proofs about them.  `PROJECT.json`
lists components, runs, mutants, hazards, findings, theorems, and for every
definition the source lines it stands for.  Paths below are relative to
`src/lib/`.

    tlc -config Inventory.cfg MCInventory.tla     # one run
    tlapm SessionProofs.tla                       # one proof module

## 1. The system

| Component | Source | State | Operations | Interacts with |
|---|---|---|---|---|
| Object chain | `kernel/sys/driver.c`, `kernel/lib/auto.c`, `kernel/lib/simfun.c` | `prev`/`next` in every object, both ends and a counter in the driver object | compile, clone, destruct, reload of the driver object, swapper call_out | garbage collector, everything that makes objects |
| Garbage collector | `system/garbage.c` | a cursor into the chain | a call_out that walks a number of objects on and removes empty cloned rooms and stray monsters | chain, containment |
| Connections | `kernel/net/user.c`, `kernel/sys/login.c`, `kernel/lib/comm.c`, `base/player.c`, `base/living.c` | per connection `player`, `splayer`, `snooper`; per living `user`; linkdeath, statues | connect, log in, exec(), lose the link, possess, break, snoop, quit, two timers | people list, access, saving |
| Login and saving | `kernel/sys/login.c`, `system/creator/player.c`, `base/player.c`, `kernel/sys/systemd.c` | the step a connection is at, what it read, object file, `.bak` and `.dead` files | name, password, generation, entering, save, autosave, die, resurrect, shutdown | connections |
| Reload of belongings | `config/login/login_room.c`, `base/player.c` | saved list of things, call_outs that are left | make things in batches, fill containers, let the player go | saving, moving |
| Moving and containers | `base/object.c`, `system/inventory.c`, `base/container.c` | `environment` of an object, four lists of a place, weight and volume books | move, attach, remove, update_internal | events, heaps, commands |
| Heaps and coins | `base/heap.c`, `base/coins.c`, `system/money.c` | `heap_size`, split state, a call_out | split, merge, use up, make, change | containers, shops |
| Events | `kernel/lib/event.c` | listeners by event and object | add, remove, call, catch an event | moving, livings, rooms |
| Command queue | `base/living/cmd.c`, `cmd/delay.c`, `base/player.c` | queue of commands and delays, one call_out | add, run, cancel, stop for an input_to() | connections, commands |
| Hands and clothes | `base/living/slot.c`, `base/weapon.c`, `base/armor.c`, commands | what is held, wielded and worn where, wounds, bandages | hold, wield, wear, take off, break, lose, heal | moving, combat |
| Fights | `base/living/combat_intern.c`, `base/living/combat.c` | `ao`, `enemies`, one call_out per fighter | attack, assist, shoot, round, stop, die | rooms, wounds |
| Bleeding | `base/living/combat.c`, `base/living/slot.c` | wounds, their total, one call_out | wound, stanch, beat | saving, fights |
| Poison and disease | `base/poison.c`, `base/disease.c`, `base/living/extra.c` | marks in a master, a list in the patient, call_outs | catch, spread, cure, kill, restart | linkdeath, login |
| Doors | `base/door.c`, `base/misc/openclose.c` | closed and locked, in both halves | open, close, lock, unlock, enter | rooms |
| Shops | `base/town/shop.c`, `system/money.c`, `cmd/misc/accept.c` | stock, what the keeper holds, offers, purses | buy, sell, produce, offer, accept | heaps |
| Mail | `system/mailmaster.c`, `cmd/misc/from.c` | mail data file, new mails as files, readers' copies | send, fetch, read, mark, delete | connections, files |
| Learning | `system/learn.c` | offers, practical and theoretical skill | offer, accept, learn, rest | skills |
| Spells | `lib/spell/spell_base.c`, `cmd/misc/cast.c`, `cmd/check_state.c` | CONCENTRATE, a code, pending casts, clones that last | utter, take effect, concentrate, disturb, cancel | commands, combat |
| Walking, searching, working | `cmd/misc/moving.c`, `search.c`, `skin.c`, `stop.c` | a state and a chain of call_outs each | start, step, stop | commands |
| Path finding of npcs | `base/brain/findway.c` | a mesh, distances, stations | search, descend | rooms |
| Shutdown | `kernel/sys/systemd/shutdown.c` | countdown call_out | start, stop, finish | saving |
| People list, statistics | `kernel/sys/systemd/statistics.c` | sorted list, counters | add_player, remove_player | connections |
| Access control | `kernel/sys/accessd.c` | levels, projects | queries, changes by administrators | everything |
| Rooms | `base/room.c`, `base/living/move.c`, `system/roomd.c` | exits, loaded rooms | load on demand, walk | garbage, events |
| News, weather, time | `system/newsmaster.c`, `system/weathermaster.c`, `system/mudtime.c` | files, the clock | post, read | |
| Network services | `kernel/net/ftpd.c`, `kernel/net/httpd.c`, `kernel/net/intermud/imudd.c` | protocol sessions | packets in and out | files, access |
| Commands, wording, areas | `cmd/`, `system/language.c`, `d/` | none of their own | parse, describe | everything |

What would make each of the modelled parts correct, and where it is hard:

* **Chain.**  The references must list exactly the objects that exist, in order.
  An object is unlinked in three different ways depending on its place, two of
  which rely on references turning nil by themselves.  The driver object can be
  destructed and has to find the chain again.
* **Garbage.**  The cursor, and a local variable that holds the next object over a
  removal, point into a list that the removal changes.  A removed room takes its
  contents along, but not players.
* **Connections.**  Who acts through which body is kept in the connection and in
  the living and set by different calls, some of which fail halfway.  Possession
  can be nested, players lose their links in any state, and two timers belong to a
  linkdeath that may be over when they fire.
* **Login and saving.**  A login is a dialogue of several inputs at whose end the
  file or the body that it found may be gone or another.  A save is three file
  operations.  What was saved must not be lost or replaced by something older.
* **Reload.**  What a player had is made in batches over several call_outs, each
  of which may fail; everything must come back once, and the player must be let out.
* **Containers and heaps.**  Where an object is, is kept twice, and weight and
  volume are kept by differences only.  Listeners run in the middle of a move.
  Heaps are cloned and merged as they move.
* **Events.**  Listeners add, remove and destruct listeners while they are called.
* **Command queue.**  There must be one call_out if and only if something waits,
  while the commands that it runs stop and continue the queue.
* **Hands and clothes.**  What is held, wielded and worn is in five lists per limb
  and in the things; limbs go, things move away and slip, in any order.
* **Fights, bleeding, ailments.**  Each lives on a call_out that renews itself,
  started and stopped in other places than where it is needed, while the body
  dies, turns to stone or leaves, or what the call_out calls ends in an error.
* **Doors.**  One door is two objects with flags of their own.
* **Shops.**  Prices with rounding, change-giving, offers that outlive their reason,
  goods that wait for a customer who quits meanwhile.
* **Mail.**  A mail moves from a file to a copy in memory to another file, and
  several readers hold copies.
* **Path finding.**  Rounds of a search with arrays of fixed length.
* **Spells.**  A spell takes effect seconds after it was uttered, and one state stands
  for every spell and effect a caster has in mind.

`PROJECT.json` lists the individual hazards with their lines.

## 2. The modules

    ObjectChain -- ObjectList (what the chain promises)   CmdQueue -- WaitingLine (what the queue promises)
        |   \----- ObjectChainProofs                       Doors  Ailments  Spells  Events
     Garbage -----/                                          Mail  Reload  FindWay -- PartsProofs
    Session ------ SessionProofs                           Fights  Bleeding  ToolSlots --- BodyProofs
    Inventory ---- InventoryProofs                         Shop --------------------- ShopProofs
    PlayerFile --- PlayerFileProofs

`MCObjectChain`, `MCGarbage`, `MCSession`, `MCInventory` and `MCPlayerFile` give the
constants of the modules on the left small values for TLC.  `Garbage` extends
`ObjectChain`, so that the collector walks the modelled chain and not an ideal list.
`SetInduction` holds the induction that the proof modules share (section 4).
`MCParts` holds all modules on the right: components that share no state with
each other.  In each of its behaviours one of them moves (`part`), so that their
states add up instead of multiplying.  Definitions whose comment begins with
"Mutant:" stand for plausible mistakes in the code; no specification uses them,
they exist to show that every property can be broken.

### ObjectChain, ObjectList

`chain.prev` and `chain.next` are the references of auto.c, `chain.dprev` and
`chain.dnext` those of the driver object, `count` is `creation_count`, `swaps` the
pending call_outs of `swapper()`.

| Action | Code |
|---|---|
| `Preload`, `CallObject` | compile_object() at start, and later through call_object() with its search for a lost chain (`Anchored`) |
| `CloneByName`, `CloneByObject` | clone_object(): with a name the master goes through call_object(), with an object it does not |
| `Destruct` | do_destruct_object(): `DoDelete`, then `Forget` (what the virtual machine does to references) |
| `Swapper`, `DriverReload` | the call_out; destruction and reload of the driver object |

`ObjectList` is the abstract specification: a sequence to which objects are
added at the end and from which they vanish.  `ImplementsList` is the refinement:
following `next` from the first object (`Listed`) behaves like that sequence.

### Garbage

`cursor` is the collector's `next`, `n` the local variable of run_garbage(), `left`
and `phase` say where in a run it is, `doomed` is what the running removal still
has to destruct.  `StartRun`, `Look`, `Advance` and `DestructNext` are the steps
of one task; every other action needs `Idle`, so the task is still atomic to
others and only its inside is visible.  `Move`, `Create`, `Remove` and `SwapOut`
stand for everything that happens between two runs.

### Session

Variables are those of the code: `player`, `splayer` and `snooper` of a connection,
`user` of a living, the people list, the pending call_outs of delay_linkdead()
(`delay`) and of move_statue() (`crumble`, a number: the code can have several),
`is_linkdead` (`stone`), LIVE_POSSESSED (`haunts`), STATUE_LOCATION (`origin`).
Operators on a state record stand for LPC functions; they return the *set* of
states the call may leave, among them those in which a call on nil ends the task
early.  Every action is one task: `Connect`, `LoginEnds`, `EnterNew`, `EnterOld`,
`LoseLink`, `DelayLinkdead`, `MoveStatue`, `Quit`, `PossessCmd`, `BreakCmd`, `Snoop`.

### PlayerFile

One character: `files` are the progress in `<name>.o` and `<name>.bak`, and
whether there are files of the dead soul and of an application; `obj` are the
character's bodies and souls, `reg` what find_player() finds, `conn` the step each
connection is at with what it read there.

| Action | Code |
|---|---|
| `Connect`, `GetName`, `CheckPassword`, `Certify`, `Apply` | the chain of input_to() calls of login.c, with what each reads |
| `EnterArda`, `Progress`, `Autosave` | leaving the login room, anything that is gained, save() by call_out |
| `SaveFails`, `Crash` | a write error, or the end of the driver, between any two steps of a save (`Renamed`, then written, then the `.bak` removed) |
| `LoseLink`, `TurnStone`, `Quit`, `Die`, `Decay`, `Resurrect` | the ends of a body, with the soul of the dead |
| `OpenCreator`, `CreatorSave`, `CloseCreator`, `Refuse` | an administrator and the application |
| `Shutdown` | shutdown() of simfun.c |

### Inventory

`env` is `environment`; `inv` unites the three lists for livings, objects and
heaps of a place, which no function of interest tells apart, `att` is the list of
attached objects; `weight` and `volume` are the books of a container; `size` is
`heap_size`, `dying` the heaps whose call_out of remove_object() is pending.

| Operator | Code |
|---|---|
| `Book` | update_internal() with its recursion outwards |
| `MoveObject`, `AttachObject`, `TakenOut` | move_object(), attach_object(), _F_rm_inv() |
| `MoveNow` | move_now() with listeners that move the object on or remove it |
| `RemoveObject` | remove_object() of object.c, recursive_rm(), do_destruct_object() |
| `MoveHeap` with `Portion`, `MergeWhole`, `MergePart`, `Clone` | move_heap() |
| `SetSize` | set_heap_size() |

Actions: the commands `Get`, `Put`, `Drop`, `Attach`; `MakeCoins`, `UseUp`, the
call_out `RemoveEmpty`, and `Destroy` for every reason code removes an object.

### The modules of MCParts

| Module | State | Actions |
|---|---|---|
| `CmdQueue` | `cmd_queue` with delays, the pending call_outs `timers`, the `status` of the connection | `Type` and `TypeCancel` (a line that is a command), `Answer` (one that is not), `NextCommand` (the call_out and the command it runs, which may delay itself, ask, fail), `LinkLost`, `LinkBack`, `Haste`; `WaitingLine` is its abstract specification: a line with limited room that is served in order |
| `Bleeding` | `bloodwounds` by slot, their total, pending `beats`, unusable slots | `Wound`, `Aid`, `Fracture`, `Heal`, `BloodlossEvent`, `Die`, `StartCallOut`, `Reenter` |
| `Events` | the listeners, a stack of running call_event()s | steps of one task: a call finds the next listener of its snapshot that is still entered; the called function adds, removes, calls further events, fails, destructs |
| `Reload` | what was saved, pending call_outs of create_inventory() and move_to_container(), `finish`, where each thing is | `LoadInventory`, `CallOut` (a batch), `Vanish`, `EnterCmd`, `QuitCmd`, `PlayerGoes` |
| `ToolSlots` | `books` (held, wielded, worn, in slots and in things), usable limbs, wounds, bandages | get or grasp, `Wield`, `UnwieldCmd`, `Wear`, `RemoveCmd`, `LeaveHands`, `Destroy`, `QueryWorn`, `SetWound`, `Mend`, bandages |
| `Shop` | purses as lists of heaps, the stock, what the keeper holds for whom, offers, call_outs of drop_bought_stuff() | `Buy`, `Sell`, `Ridiculous`, `Produce`, `Accept`, `OfferLapses`, `DropBoughtStuff`, `TakeUp`, `CustomerGoes` (a buyer turns nil), `KeeperMoves` |
| `Fights` | per living `ao`, `enemies`, the state COMBAT and pending rounds | `AttackCmd`, `AssistCmd`, `Shoot`, `Round` (which may end in an error), `Stir`, `StopFights`, `Move`, `Goes`, `Resurrect` |
| `Mail` | the mail data file, the files `new_1`, `new_2`, ..., each reader's copy, who gets the next line | `Send`, `SendAndGoOn`, `ReadMail`, `From`, `Display`, `Delete`, `Purge`, `QuitMail`, `MailLink`, `MailCrash` |
| `Doors` | `CLOSED` and `LOCKED` halves, loaded halves | `OpenCmd`, `CloseCmd`, `LockCmd`, `UnlockCmd` (and pick), `EnterDoor`, `Unload`, `Load` |
| `Ailments` | marks of the master, lists of the patients, call_outs | `Afflict`, `Cure`, the effect that ends, is resisted, kills or goes on and spreads, `Changes`, `Leaves`, `ComesBack` |
| `FindWay` | the mesh, distances, fields to do, stations | `Mesh`, `Search` (one field), `EndRound`, `Begin`, `Walk` |
| `Spells` | the state CONCENTRATE, `SPELL_CODE`, `CONCENTRATE_DATA`, pending casts, lasting effects | `Cast`, `DelaySpell`, `Concentrate` (the beat of an effect), `SpellCommand` (what breaks concentration), `Struck`, `CancelSpell` |

## 3. What is checked

| Run | Configuration | Properties | Distinct states |
|---|---|---|---|
| chain | auto object, two masters, four clones, driver reloads | ChainTypeOK, ChainInv | 47,150 |
| garbage | two rooms, one with a file, a monster, a player, no reloads | GTypeOK, UsedIsKept, OrphansGo, ImplementsList | 41,126 |
| session_full | mortal, coder, npc, three connections, possession of both, snooping | SessionTypeOK, RoutedToOwn | 1,025,685 |
| session_npc | the same, only the npc is possessed, timers fair | PlayersReached, LinksMatch, LinkdeathSettles | 210,948 |
| player_file | a mortal or a coder, two connections, three objects | FileTypeOK, SaveKept, OneOfAMortal, NeverOlder | 288,098 |
| inventory | a player, three bags (one rigid), a belt, two heaps | InventoryTypeOK, Rooted, MovesKeepUnits, BooksKept | 12,496 |
| parts | the twelve components of MCParts | the twenty-one properties below | 346,713 |
| session_snoops | as session_full | SnoopsEnd is violated | |
| inventory_weight | as inventory, unbounded books | BooksRight is violated | |
| bleeding_total | as parts, slots break and are lost | TotalRight is violated | |
| shop_profit | as parts | NoProfitEver is violated | |
| way_errors | as parts, one post in the room | AlwaysAnswers is violated | |

The comment above each property says what it means and which code it is about.
In short:

* **Chain.**  Whatever order objects are compiled, cloned and destructed in, and the
  driver object reloaded, neighbours agree and nothing follows the last object
  (`ChainInv`); the beginning can be lost by a reload.
* **Garbage.**  Without reloads the chain is one list of just the living objects in the
  order they came, whatever the collector removes from it (`ImplementsList`).  The
  collector survives the loss of its cursor and starves nobody
  (`OrphansGo`); players are put out of a room that goes, and rooms with a file are
  left alone while somebody is in them (`UsedIsKept`).
* **Session.**  With possession of players allowed, nothing refers to what is
  gone and no player's messages are shown on a connection that plays another
  (`RoutedToOwn`).  With possession of npcs only, the two directions agree
  (`LinksMatch`); nobody is acted through by two connections, the people list is of
  people with a link, statues have none, and whoever else has none has the call_out of
  delay_linkdead() to come (`PlayersReached`); and a lost link ends in a statue, in the body's end or in a return (`LinkdeathSettles`), though the
  timers are never stopped.
* **PlayerFile.**  What was saved stays readable, in the file or in the `.bak`
  (`SaveKept`); a mortal has one body whatever connections race at the password,
  and does not come back from the dead through a login that had read the file before
  (`OneOfAMortal` with its part `DeadStayDead`); and nothing older is written over a later save,
  but in the cases the property names (`NeverOlder`).
* **Inventory.**  Both ends agree on where an object is (`InventoryTypeOK`, which
  also says that an empty heap has its timer), no set of bags and belts encloses itself
  (`Rooted`), splitting and merging keep the number of coins (`MovesKeepUnits`),
  and a move of anything but heaps leaves every container's books as right or
  wrong as they were, even if a listener moves the object on or removes it before
  the books are touched (`BooksKept`).
* **CmdQueue.**  One call_out if commands wait and none otherwise (`OneTimer`); what
  was typed before a question does not answer it (`NotAskedAhead`); commands run in
  order, each once, and all that are in the queue run unless it is stopped
  (`ImplementsLine`, with liveness).
* **Bleeding.**  Wounds, their total and the call_out do not part (`BloodRight`),
  as long as no slot that bleeds is lost, see the findings.
* **Events.**  Who listens from the beginning to the end of a call_event() is
  called once (`EveryoneHears`), who does not listen is not (`OnlyListenersHear`).
* **Reload.**  Everything that can be made comes back once, where it was
  (`Restored`), before the player may go; who waits has a call_out to come that finds
  its place, and may go in the end (`PatienceEnds`).
* **ToolSlots.**  The lists agree with each other, and what is used is carried, by
  limbs that can (`InUse`, with the exceptions it names).
* **Shop.**  Purses lose and win exactly the prices, and trade wins nothing as long
  as one thing is bought at a time (`NoProfit`); whatever the
  keeper holds has a call_out pending that will find it, for each purchase and also after
  the buyer quit (`GoodsLeave`).
* **Fights.**  A fight has its next round pending, and one only but for the
  occasions that are counted (`RoundsRight`).  The exception is a round that ends in an
  error before it starts the next one: cb_message() sends E_GOT_HIT without a catch
  (`base/living/combat_intern.c:493`), and E_got_hit() fails for who loses the
  concentration on a spell (`base/living/combat.c:588`).  `failed` says whose fight stands
  still for that, until something starts a round again.
* **Mail.**  A mail is somewhere on disk until the player deletes it (`MailKept`),
  once filed always (`FiledStays`), with three exceptions that `MailKept` names.
* **Doors.**  Both sides are open or closed alike, and none is locked and open
  (`HalvesAgree`).
* **Ailments.**  Master and patients agree (`InSync`), and who has an ailment is
  harmed by it (`Acts`), with two exceptions.
* **FindWay.**  When the search is over, distances are the least there are; the way that
  follows them is one and begins where it is shortest; there is an error only if there is
  no such way or the arrays were too short, and it gets stuck at narrow fields only (`WayLeads`).
* **Spells.**  A spell whose caster was disturbed never takes effect, also if the
  caster concentrates again by then (`OnlyKeptSpellsWork`); and concentration is always
  on something that a command can end (`SomethingInMind`).

### Bounds

* *Chain, garbage*: each object is created once (`used`).  Four clones are enough
  for an object with neighbours on both sides to be removed while both
  neighbours are at the ends or not.  `SwapBound` keeps at most two swapper()
  call_outs pending; with `SwapChunk` 1 the counter runs over after two deletions.
  `GarbageObjects` 2 lets a run begin and end in the middle of the chain.
* *Session*: `Users` are connection objects that may be used again.  Two
  connections meet over one body, the third lets a third party come between.
  `MaxCrumble` bounds pending move_statue() call_outs of one player: one is
  normal, two is the overlap that matters.  session_full uses 1 since the overlap
  does not change routing.
* *PlayerFile*: two connections race; a third object is needed when one body is
  replaced while a second login holds another.  Progress up to `MaxProgress` 2 tells
  an older save from a newer one.  Of a coder, who may have any number of bodies, a
  part is explored (`CodersPart`).  Connections and objects are alike.
* *Inventory*: `MaxUnits` 2 coins in two heaps can be split, merged and
  exceed a purse's room.  The sack is rigid, two bags are not (a rigid bag cannot be
  put into what it contains by volume alone, so `Rooted` would be trivial).
  `MaxDrift` 1 bounds how far the books of all containers are off before the state
  is left unexplored; TLC still checks every step that leads out of the bound, so
  each merge and split is judged once but not what follows from large errors.
  Heaps are alike (`HeapSymmetry`); no liveness is checked in that run.
* *CmdQueue*: `QueueLength` 2 cells are one command, so the queue holds two; four
  commands are typed.  With `AskFails` FALSE a command that fails after it asked a
  question is left out, as it does leave the queue running, see below.
* *Bleeding*: an arm with its hand, and a head; a wound is 1 or `Severe` 2.
  With `Fractures` FALSE a slot breaks only if it does not bleed or all the blood is
  its own; bleeding_total has it TRUE.
* *Events*: two listeners, two functions, sendings nested twice, two changes by the
  called functions from the first sending on.
* *Reload*: seven inventories of five things (`FewInventories`), with batches that
  end before, between and behind containers; any thing may be impossible to make.
* *ToolSlots*: a shirt under a mail that shares one limb with it and goes down to
  the hand, a sword for two hands; an arm, its hand, a foot that can hold.
* *Shop*: one customer, who may quit, so that there are two buyers, he and nil; a heap of
  four coins of value 2 buys one or two things, three things in all, of which the keeper
  carries two, with two call_outs of drop_bought_stuff() for each buyer: the second purchase
  replaces the offer of the first, and the first call_out takes what is bought with the
  second.  One bad and one exaggerated modifier; money up to 10.  shop_profit has four
  things and money up to 12.
* *Fights*: two players, one who attacks and walks and one who is calm, and an
  npc, two rooms; at most two rounds pending, one dead, and one lapse or one fight that
  stands still after an error.
* *Mail*: three mails, two readers (more do nothing, as the module's comment says).
* *Doors*: two doors, one locked at first, one with a side without key.
* *Ailments*: two patients, two call_outs each: the second chain is the one that
  matters.
* *FindWay*: a room of 12 by 12, any of four walls, three places: gaps of widths 2 and
  1, overlaps, and a target that cannot be reached; or one post of 1 by 1, around which the
  arrays of the search are too short.
* *Spells*: three spells, `SPELL_CODE` up to 5: one that was disturbed, one that lasts
  by mistake, and one that is uttered meanwhile.

### Fairness and deadlock

* `TimedSpec` has weak fairness of delay_linkdead() and move_statue(): the driver
  runs every call_out in time.  Players and staff are under no fairness.
* `GSpec` has weak fairness of the steps of the collector: its call_out renews
  itself before anything else in a run.
* `PartsSpec` has weak fairness of two call_outs, for the same reason:
  next_command() and the batches of the login room.
* Deadlock checking is off where the model really may stop: in the chain, garbage
  and inventory runs because each object is created only once and all may be gone;
  in session_full because connection objects that an error in close() leaves behind
  use up the finite set of connections; in player_file because a character's
  progress is bounded; in parts because a way is found, an inventory is
  loaded and a player may be gone for good.

## 4. What is proved

For every value of the constants that satisfies the named assumptions of the
modules, with no bound on objects, connections, livings, doors or patients:

| Theorem | States |
|---|---|
| `ChainTypeCorrect` | `ChainSpec => []ChainTypeOK` |
| `ChainLinked` | `ChainSpec => []ChainInv` |
| `ChainImplementsList` | `~MayReload` gives `ChainSpec => ImplementsList` |
| `GarbageTypeCorrect`, `GarbageKeepsUsed` | `GSpec` implies `[]GTypeOK`, `UsedIsKept` |
| `GarbageImplementsList` | `~MayReload` gives `GSpec => ImplementsList` |
| `SessionTypeCorrect` | `Spec => []SessionTypeOK` |
| `SessionLinksMatch` | `Victims \subseteq Npcs /\ Spec => []LinksMatch` |
| `SessionOneActor` | `Victims \subseteq Npcs /\ Admins = {} /\ Spec => [](OneActor /\ ListedAreReachable /\ NobodyForgotten)` |
| `SessionPlayersReached` | the same with `~RoomsLost`: `[]PlayersReached` |
| `SessionRoutedToOwn` | `OnlyPowerless /\ Spec => []RoutedToOwn` |
| `FileTypeCorrect`, `SaveKeptAlways`, `OneOfAMortalAlways`, `MortalNeverOlder` | the specification of `PlayerFile` implies `[]FileTypeOK`, `[]SaveKept`, `[]OneOfAMortal`, `NeverOlder` |
| `InventoryTypeCorrect`, `InventoryRooted`, `MovesAlwaysKeepUnits`, `BooksAlwaysKept` | that of `Inventory` implies `[]InventoryTypeOK`, `[]Rooted`, `MovesKeepUnits`, `BooksKept` |
| `CmdTypeCorrect`, `CmdOneTimer`, `CmdNotAskedAhead` | `CmdSpec` implies `[]CmdTypeOK`, `[]OneTimer`, `[]NotAskedAhead` |
| `CmdInOrder` | `CmdSpec` implements `WaitingLine` but for its fairness |
| `DoorHalvesAgree` | `DoorSpec => []HalvesAgree` |
| `AilInSync`, `AilActs` | `AilSpec` implies `[]InSync`, `[]Acts` |
| `SpellsOnlyKeptWork`, `SpellsSomethingInMind` | `SpellSpec` implies `OnlyKeptSpellsWork`, `[]SomethingInMind` |
| `EveryoneAlwaysHears`, `OnlyListenersEverHear` | `EventSpec` implies `[]EveryoneHears`, `OnlyListenersHear` |
| `FightTypeCorrect`, `RoundsAlwaysRight` | `FightSpec` implies `[]FightTypeOK`, `[]RoundsRight` |
| `BloodAlwaysRight` | `~Fractures /\ BleedSpec => []BloodRight` |
| `ToolsAlwaysInUse` | `SlotSpec => []InUse` |
| `AlwaysRestored` | `LoadSpec => []Restored` |
| `MailAlwaysKept`, `FiledAlwaysStays` | `MailSpec` implies `[]MailKept`, `FiledStays` |
| `NothingToGain`, `GoodsAlwaysLeave` | `ShopSpec` implies `[]NoProfit`, `[]GoodsLeave` |
| `WayAlwaysLeads` | `WaySpec => []WayLeads` |

*Chain.*  `ChainIndInv` adds to the type that what is not alive has no references
and is referred to by none, that neighbours agree, that nothing follows the last
object, and that a chain whose ends are unknown still hangs together.
`InsertKeeps`, `DeleteKeeps` and `AnchorKeeps` show that each of the three calls keeps
`LinkInv`; the proof of the step has one case per action and cites them.
That neighbours agree is not inductive alone: linking behind the last object keeps
it only if nothing follows that object.

*Chain, refinement.*  `Listed` is computed by walks (`Ahead`), so the proof first says what
they find: `Follows(c, s)` holds if following `next` meets just the objects of the sequence `s`,
each once, and `FollowedIsListed` shows that then `InOrder(c) = s`.  The rest is about
sequences: do_insert() makes `s` an `Append` (`InsertFollows`), the search for a lost end finds
the auto object of an empty chain (`AnchorFollows`), and do_delete() with the vanishing of
references gives `s` without that object (`DestructFollows`) or `s` itself if it was not in
it (`UnlistedFollows`).  Which objects are referred to at all, and that `prev` leads back, is
`LinkInv` again.  The inductive invariant `ListInd` adds that only existing objects are
listed, and that once anything was cloned the list is not empty, which linking in a clone of a
master object needs: it does not look for the beginning.  `~MayReload` is necessary: a
reloaded driver object forgets both ends, and until the next call_object() nothing is listed.
`GarbageChains` shows that each step of the collector is one of the chain or leaves it alone,
so what it walks along while it removes is the list as well.

*Session, types.*  `Sound(s)` says of a state record that it has its types, that
everything it names exists and that nothing that is gone is named; each LPC
function has a lemma that its result is `Sound` if its argument is.  `SessionInd`
is `Sound(Now)` with what concerns statues.

*Session, links.*  `LinksMatch` is not inductive: break_possession() finds the
connection to give back by the saved body, so a saved body in the wrong place would
misdirect it.  `Linked(s)` adds that whoever plays a player or logs in has no saved
body, and that a connection whose saved body is an npc plays nobody.  The
hypothesis `Victims \subseteq Npcs` is necessary; session_full shows
behaviours beyond it in which only the weaker `RoutedToOwn` is left.

*Session, reach.*  `Met(s)` carries `OneActor`, `ListedAreReachable`, `NobodyForgotten` and
`StatuesHaveNoLink` through a task: each says of everybody "but for those whom this
call is just dealing with" (`AnsweredBut`, `ListedBut`, `KeptBut`, `NoLinksBut`), since
set_user(), close() and set_linkdead() repair it one after the other.  `NobodyForgotten` is
what safety there is to `LinkdeathSettles`: with it, only the call_out has to come.  The hypotheses
`Victims \subseteq Npcs`, `Admins = {}` and `~RoomsLost` are the constants of
session_npc; without the last, a statue whose room cannot be loaded keeps its link.

*Session, routes.*  `Owned(s)` adds to `RoutedToOwn` that no two livings share a
connection, and that a connection with a saved body is either that of a possessed, which
nobody uses, or that of a demon who acts through somebody who cannot possess.
`OnlyPowerless` says the latter of the levels, and holds of the constants of
session_full; with three levels in a chain the property fails (section 5).

*PlayerFile.*  `FInv` adds which object a name finds (`Named`, `FoundByName`: what was
restored is found, and a body has at least the progress on the disk), and two modes of a
dead mortal: before the soul enters the world it goes with the file of the dead, and every
connection at its password knows of that file (`Unsettled`); from then on the soul is what
everybody finds (`Settled`).  Without the modes a second login between death and
resurrection could restore a second body.

*Inventory.*  `Sorted(s)` adds to the type and to `Rooted` that livings are in rooms or
nowhere, that things are attached to belts only, and that a heap that is gone has no
units.  Every operator that stands for a call keeps it; listeners that move or remove
what is moved are such calls again.
`RootedIn` says that no set of containers is closed under being inside, which replaces
paths by sets; `SumChanges` and `SumsAdd` give `MovesKeepUnits`.

*Inventory, books.*  update_internal() of a container, done to all that is around it,
changes by how much its own books are off and nobody else's (`BookOff`): of whatever is
around, one thing in it gained the same weight (`OneInside`), and no volume if it is
rigid.  This needs the way outwards to be finite, which it is since nothing is met twice on it
(`NeverTwice`, `WayEnds`).  move_object() makes the books of both ends wrong by what was
moved (`MovedOff`); a listener that moves it on or removes it keeps the books as they
are, wrong ones too, and its weight (`ListenersOff`); so the two calls at the end of move_now()
undo what move_object() did (`MoveNowOff`).

*Garbage.*  `GarbageInd` is `ChainIndInv` with `Spared`: as long as a run removes
something, no player is part of it or in it, and nobody in a room with a file is.  It holds
from the moment recursive_rm() and check_room() have looked until the last object is
destructed, because the task is not interrupted.

*Command queue.*  A task is a sequence of LPC calls on a record of queue, call_outs
and status; `Fine` (the call_out fits the queue, and nothing that was typed before a
question waits behind it) is kept by each of the functions, which have a lemma
each.  The order follows from the numbers in the queue rising above the number that
was served last; each task is zero, one or several letting-in and one serving
of `WaitingLine`, shown to be a step of it or a stutter.

*Doors.*  `HalvesAgree` is inductive with the type and with the symmetry of
`OtherHalf`; the proof has one case per command and flag.

*Ailments.*  `AilInv` adds that who is marked is in the game and that a call_out
that is counted on is there (`OneEach`, `Enough`): a poison has exactly one
call_out per patient unless one was taken by another's cure, a disease at least one.

*Spells.*  `SpellInv` adds that no two casts have one code, and that the cast which
delay_spell() would accept is the one that was kept in mind; without the first, a
spell that takes effect could leave another behind that is taken for it.

*Events.*  `Fair` says of each sending on the stack that who listened all the time
listens still, has been heard or will be, and can be found; errors and nested calls
replace or pop the innermost sending only.

*Fights.*  `FightInd` says of every living that who has an ao or the state COMBAT has a
round to come or is one of those whose last round failed, and that the rounds are no more
than the lapses so far, and one more for who has an ao.  A look around of several livings at once is a sequence of calls, each of
which keeps it (`StirredFits`).

*Bleeding.*  `Healthy` says that `bloodloss` is the sum of the wounds and that a call_out
is pending unless it is 0; from this it follows that one wound bleeding keeps the
call_out.  `~Fractures` is necessary: with them it is finding 3 of section 5.

*Hands and clothes.*  `Orderly(b)` is `InUse` of any books, so that every operator of slot.c
has a lemma from orderly books to orderly books.  `InUse` is inductive; what needed work is
what is removed in a row, when a limb goes with what is in it, on it and connected to it:
`Moved` says what one move leaves, `MovesOrderly` and `LimbsOffOrderly` carry that through
all of them, in any order.  `AllButRight` says what a filter of a list of layers keeps.

*Mail.*  `MailInd` adds to `MailKept` that the files of new mail have the names
`new_1`, `new_2`, ... without a gap unless a crash tore them (`InOrder`), that whoever
reads has everything that is filed (`ToldHasAll`), and that then no new mail is left out.

*Shop.*  That purses are right is a matter of folds over heaps.  `ShopInv` says of purses that
no two heaps have one type and none is empty, which makes each heap count once;
`TakeRight`, `GiveRight` and `ChangeRight` follow what is left to pay, what is in the purse
and what must come back through the partial results of the folds.  That the last coin
type is worth 1 is what lets change be given exactly.  That trade wins nothing is not inductive, since
money comes and goes: `AtBest` says that what the customers have, and what all goods
around could still bring them at best, sold one by one at the stock of now
(`Paid[count + Goods] - Paid[count]`), is never more than they brought.  A sale moves a price from
one side to the other; a purchase pays at least what anybody is ever paid for that thing,
whatever the modifiers (`Dearest`); production makes goods around cheaper because
calc_price() falls with the stock (`PaidFalls`).  The bounds of the modifiers in
`ShopAssumption` are the clamps of buy_trade() and sell_trade() (`base/town/shop.c:253-256`,
`295-298`).  `GoodsLeave` is inductive as it stands: each purchase starts a call_out with its
buyer, the call_out takes all that is his, not only what was bought then, and a buyer who
quits turns nil in the call_outs and in the things alike.

*Reload.*  `HadTurn(P, ...)` says that there is a set of things that had their turn to be made:
none of them waits in a call_out, no thing waits twice, and what waits or had its turn was
saved in what had its turn.  `Cared` says of any set of things that are whole (each can be
made and did not go away, and what it was saved in is in the set) that each is where it
belongs, or on its way there, or that what it was saved in is missing; when no call_out is
left, the last would go on outwards for ever.  That no call_out is left when the count says
so rests on the first: two call_outs are never the same.  `Comes` adds what safety there is
to `PatienceEnds`: nobody waits without a call_out, and unless something went away each
finds its place, because the contents of what could not be made are left out (`HolderFine`).
The assumption `Nested` is that of
data written from the outside inwards.

*Path finding.*  The edges of a room and of what blocks in it ascend without repetition
(`SortedIs`), so every place lies in one field, and the middle of a field beside its own is
no farther from it than its own field is wide and half of the other (`ReachAtMost`).  The
search is two inequalities.  `Founded`: each distance is that of a first step to the target, or comes
from a field beside.  `Eased`: a field beside one that is on no list cannot get a smaller
distance from it.  Searching from a field takes it off a list and lowers those around it,
and puts them on the other (`SearchGoesOn`); when both are empty, every distance is the
least there is (`SearchEndsSettled`).  The walk needs the distances as they were,
`OnWay(E, ...)`, because it overwrites that of the npc's own field.  It goes on as long as
a field beside has less, which one does by `Founded` unless half of this field is 0; where
that one is the npc's own, the choice of the first station and `ReachAtMost` say the same
(`StuckNarrow`).

*Folds and induction.*  `SetInduction` derives induction over numbers and finite sets from the
library's theorem that the strict subsets of finite sets are well-founded, in a form that
speaks of a set of elements instead of an operator, and from it that the recursive
functions behind the community modules' folds exist (`FoldExists`, `FoldLeftExists`), how
sums over sets and along sequences add and change, and that what each step keeps, the fold keeps.

Only model-checked:

* everything temporal with fairness (`LinkdeathSettles`, `OrphansGo`, the liveness of
  `ImplementsLine`, `PatienceEnds`): liveness and ENABLED are out of the
  prover's reach;
* `PartsTypeOK`, which joins the types of several modules; most of its conjuncts are part of
  the inductive invariants above (`CmdTypeCorrect`, `DoorTypeCorrect`, `FightTypeCorrect`,
  `AilInv`, `SpellInv`, `MailInd`);
* `SnoopsEnd`, `TotalRight`, `NoProfitEver`, `BooksRight` and `AlwaysAnswers`, which the code
  violates.

## 5. Findings

Each is shown by a run that TLC ends with a counterexample, and argued at its
line in `PROJECT.json`.

1. *inventory_weight* (`base/heap.c:430`).  A container's books are wrong after
   coins went through it: a split heap is never booked where it arrives, a heap
   that merges as a whole is not taken off where it leaves, a heap that is used
   up stays on the books.
2. *session_snoops* (`kernel/lib/comm.c:207`).  The test against recursive snoops
   looks for a cycle of two only; three can be made a ring, since the command sets
   a snoop for others.
3. *bleeding_total* (`base/living/slot.c:697`).  A limb that is lost while it bleeds
   subtracts the total of all wounds and not its own: the other wounds stay listed
   and cost no blood any more.
4. *shop_profit* (`base/town/shop.c:552`).  Several things are bought for the price
   of one; sold again one by one they bring more.
5. *way_errors* (`base/brain/findway.c:209`).  A field is entered among those to do next
   each time its distance falls, and there is room for as many as there are fields:
   around a single post the index runs over and the npc's search ends in an error.

Further behaviour seen while modelling.  Where a property has an exception, it is
named in the property; the rest is described only here.

* **Chain.**  After a reload of the driver object a clone by object may come before
  the next call_object(): the old chain is then never found again (`driver.c:292`).
  `creation_count` is counted in do_delete(), while `kernel/include/kernel.h:17` and
  the change log speak of created objects.
* **Connections.**  close() calls set_linkdead(1) for a demon in a player's body
  and reads `splayer` afterwards, which that call has reset: close() fails and the
  demon's body stays on the list without a link (`kernel/net/user.c:62`).  quit() in a
  possessed body asks whether that body may force itself; the test is strict, so the
  demon is disconnected and never returned (`base/living/cmd.c:88`).  The call_out of
  an earlier linkdeath moves a statue a second time and overwrites where it came from
  (`base/player.c:609`).  A connection whose player was taken can be left waiting
  with nobody able to end it (`kernel/net/user.c:138`).  The test for the word "break"
  of the command possess is inverted (`cmd/coder/possess.c:49`).  With players
  possessed, a statue can have a link and `LinksMatch` fails; with an
  administrator who possesses a coder's abandoned body `RoutedToOwn` fails; a coder
  who logs in a second time while possessing, and whose possession is then
  broken, is played by two connections.  The runs' constants are chosen below these
  points and the theorem's hypothesis names one of them.
* **Files.**  A crash between rename and write leaves only the `.bak`, which no login
  reads: the name is offered as a new one, and the first save of the new
  character removes the old `.bak`.  The check at reboot (`kernel/sys/systemd.c:83`)
  removes a `.bak` before it renames, save() does not.  A body that is entered when its
  file is gone has no name and can never be saved.  A coder resurrected while a second
  login has read the file of the dead gets two bodies (`kernel/sys/login.c:385`).  Who
  dies without a connection dies half: exec() fails in do_die().  The creator can save
  again later, over what was played since; a second application replaces the first.
* **Belongings.**  move_to_container() returns without counting down when its
  container is gone (`config/login/login_room.c`); if a clone fails, the variable
  still holds the item before and the contents go into that one; attached things come
  back inside; what does not fit is nowhere.
* **Containers.**  The limit of a container replaces the number of coins asked for:
  asking for one of five where three fit moves three (`base/heap.c:394`).  A removed
  container takes its contents off the surrounding books twice (`base/object.c:268`
  and then recursive_rm()).  What hangs on a belt weighs nothing to whoever carries
  the belt; attached things are not in inventory(7) and are nowhere when the belt is
  removed; attaching books no volume and taking off subtracts it
  (`base/object.c:909-950`).  An empty heap takes units in until its call_out removes it
  with them.  make_coins() does not look at the result of move() (`system/money.c:23`);
  change() of more than there is takes all and returns 0.
* **Commands.**  "$" and aliases evade command delays.  A command that fails after
  it asked a question does not stop the queue.
* **Events.**  Only the result of the last function called is kept; an object that
  destructs itself between two of its functions ends the event by an error.
* **Hands and clothes.**  remove_tool() refuses a piece that is covered, also when it
  has moved away already; a destructed outer garment covers what is under it until
  the next query_worn(); thin things that slipped can be worn twice; a limb first broken
  and then lost keeps its clothes; a bandage heals whatever the wound became; a hand that
  went with its arm is healed by nothing; wield_tool() of a thing not held fails
  midway; set_wielder(0) never removes its listener.
* **Fights.**  After "stop fights", or when the opponent is destructed while a round
  is pending, the next attack starts a second chain of rounds.  cb_attacked_by()
  does not set COMBAT for who is attacked; an error in a round's message, as that of E_got_hit() below, leaves the fight with
  `ao` and COMBAT set and no round to come (`failed`), until the opponent is destructed or
  "stop fights" takes the `ao` and somebody attacks; cb_init_fight() misses the enemy behind a
  dead one that it takes out of the list; death does not clear the enemies.  A blow at armour whose last piece is not of
  metal never ends (`base/critical/crit_3.c:160`, where `i--; i++` is the loop).
* **Wounds and ailments.**  Statues bleed on; each start_call_out() adds another chain of
  bloodloss_event().  remove_poison() removes the call_out of any patient
  (`base/poison.c:121`); a call_out that comes while its patient is a statue or dead is
  not renewed though the mark stays; the cure of a disease leaves its call_out, so a
  new infection starts a second chain.
* **Doors.**  Unlocking from one side leaves the other side locked until the door is
  opened (`base/door.c:318`); "open with key" of a door that is not locked fails; picking
  a lock needs the key, as pick calls the function of unlock.
* **Shops.**  Goods the keeper cannot hold are dropped; accepting moves what was
  offered from wherever it is; a price can be rounded to 0, which ends selling.
* **Mail.**  A file's number is the count of files, and write_file() appends: after a
  crash amid removals the next mail may be written behind one that is left, and both
  are dropped.  A text with the separator "@@@" is dropped.  A second reader opened by
  "!mail" saves its copy, and the first one an older one over it.  After all mails are
  deleted a new mail makes input_line() fail (`system/mailmaster.c`), and so does "d 0".
  The master keeps the options of the last player for one without mail data.
* **Path finding.**  There is no test for a target that cannot be reached: the search
  ends with an index of -1 and an error though the header promises a result; ways
  longer than the room is wide and long are not found; a field narrower than 2
  costs nothing, so that the way can get stuck (`base/brain/findway.c`).

* **Spells.**  E_got_hit() calls lost_concentration() on CONCENTRATE_DATA, which is
  an array (`base/living/combat.c:589`): the blow ends in an error and the effect is not
  told.  Until the next beat it can live on in the shade of another spell.  The end of
  one effect takes the state and the data of a newer one.  remove_spell() of
  `lib/spell/cha/open/dri/shac.c` calls delet_state(), so its state stays.
* **Walking, searching, working.**  WALKCMD_DATA holds the first call_out of a walk only
  and "stop" removes none: walking again within a second walks two ways at once
  (`cmd/misc/moving.c`).  "search" while searching starts a second chain, the end of
  the first takes the state of the second, and searching an empty room leaves the
  state behind.  After a death a finish_skin() that is pending ends a later work early.
* **Learning.**  learn_cmd() asks IN_ARRAY(), which is about arrays, of mappings
  (`system/learn.c:839-858`): skills that need a place, an object or a teacher can be
  learned without.  improve_resistance() counts in the skill SK_RESIST_LAST + 1, which
  is none (`base/living/skill.c:218`).

## 6. Abstractions, and what is not modelled

* *Session*: the dialogue before the body is entered (it is in PlayerFile, for one
  name), input_to() and the editor (in CmdQueue), the command `control`, wording.
  Snoop levels are the force levels: both are the level of access data.
* *PlayerFile*: rooms, passwords, banned names and sites, guests; progress is a number.
* *Garbage*: errors inside the objects the collector calls; check_object(), which
  nothing calls.  move() is a change of environment there.
* *Inventory*: light, liquids, CONT_LESS_WEIGHT (its division rounds), hiding, things
  put on surfaces, rooms linked to containers (query_room()), events that refuse a
  move (a refused move changes nothing).  Coordinates appear as a choice: heaps in a
  room are found equal or not.  A heap of size 0 is not moved by a command.  Listeners
  of the move of a heap do nothing.  The order of inventories is left out; it
  decides only which of two equal heaps is merged with.
* *ToolSlots*: volumes but for how many things fill a hand, protection and shields.
* *Fights*, *Bleeding*, *Ailments*: who hits whom how hard, stats, skills, how far an
  ailment has come; all of these are arithmetic with random numbers.
* *Shop*: goods are of one kind; talking, and the skill of trading beyond a percentage.
  calc_price() computes with floats (`base/town/shop.c:162-175`); the model has the exact
  quotient, truncated, so that a rounding of the float just below a whole number is left out.
* *Mail*: the editor, options, aliases of the mailer, what is already read.
* *Doors*: which key fits is an input; pass-through is moving.
* *Spells*: several targets, success and resistance, what a caster knows, what an effect
  does; spells that are cast at once are commands here.
* *FindWay*: the walk along the stations (brain_approach()), during which things move.
* All components with status not_modelled in `PROJECT.json`, each with its reason.
  Wording, areas, and most commands hold no state of their own.

## 7. Plan

What is left, in order of what the library depends on:

1. Walking, searching and working (`cmd/misc/`), with the interruptions of
   `cmd/check_state.c`; `Learning` (`system/learn.c`): offers that are
   accepted late, the exchange of development points.
2. Rooms (`base/room.c`, `base/living/move.c`): loading on demand, walking with
   followers.
3. The order of the people list, levels and projects of the access daemon, the
   countdown of the shutdown, the news, the walk along a way.
