# SweetDawn: models, checks and proofs

SweetDawn drives an AML005 dawn-simulator clock radio over Bluetooth (RFCOMM) and
offers it to local programs through a Unix socket, and to Home Assistant through an
MQTT bridge. This directory holds TLA+ modules of the parts of it whose correctness
depends on order, time and failure, the TLC configurations that check them on small
instances, and TLAPS proofs for every value of the constants.

    tlc -workers 2 -config AlarmWatchSafe.cfg MCAlarmWatch.tla     (any run of the table below)
    for m in AlarmWatch Link Socket AmlClock MqttBridge Transport IpcServer; do tlapm ${m}Proofs.tla; done
    tlapm Recurrence.tla

Contents: [1 inventory](#1-inventory) - [2 modules](#2-modules-and-code) -
[3 runs](#3-runs) - [4 fairness](#4-fairness) - [5 proofs](#5-proofs) -
[6 disagreements](#6-disagreements-with-the-documents) - [7 limits](#7-what-is-not-modelled) -
[8 plan](#8-plan)

## 1. Inventory

The service (`src/src/app/service.c`) is **one thread**. Each turn of
`ipc_server_run` is: `sweetdawn_tick` (the link), `handlers_tick` (events, alarm
tracking, clock), one buffered request of each client, `poll` for at most a second,
then accept, read and write. A request of a client, a refresh and a tracking read are
the same *exchange*: send a frame, receive frames until one has the response code
awaited, or a timeout. So nothing runs in parallel inside the service; what makes it
hard is that **frames of the device, requests of clients, signals and time arrive
between any two steps**, and that an exchange blocks the turn for seconds while they do.

| Component | State | Operations | Interacts with | What is hard | What makes it correct |
|---|---|---|---|---|---|
| Link supervision (`core/sweetdawn.c`) | connected, consecutive_failures, connect_backoff_ms, next_connect_ms, next_refresh_ms, last_refresh_ms | tick, connect, refresh, request, exchange, abandon | transport; handlers (events, requests) | silent links, late answers, failures counted across clients and refreshes, several deadlines | a dead link is dropped in bounded time; the delay follows the failures; an answer is not taken for another; a good device is found again |
| Alarm tracking (`app/handlers.c` 895-1234, 1350) | queue of 16 events, state, a_sonne and fin_snooze of each alarm, surveiller, arret_demande, prochaine_lecture_ms, reveil_change | on_event, traiter_evenements, suivre_reveil, presumer_snooze, relire_eclairage, agir_sur_alarme | link (exchanges), IPC (broadcast) | the device never reports the end of an alarm, a tap or a stop; messages lost while the link is down; messages noted during an exchange | what is in progress is watched; what is shown is what was tracked; a stop is not a snooze; a calm device ends up idle |
| IPC server (`ipc/ipc_server.c`) | 16 places: fd, subscribed, input buffer, output queue and offset; running, stop_requested | accept, read, treat a line, append, write, broadcast, reset, stop | handlers (request, tick), clients | partial reads and writes, lines that wait, places used again, clients that leave during a turn | each client gets its answers and events, whole and in order; no line is forgotten; nobody is cut for another |
| Socket file (`ipc_server.c` 116-145, 606-730, 989) | listen_fd, owns_socket, socket_path, the file itself | init, stale test, replace, cleanup | other instances of the service, systemd | check then unlink then bind, another instance in between; a signal during init | an ordinary file or a socket in use is never removed; an orphan is always replaced; no socket is left by an orderly end |
| Clock of the device (`handlers.c` 268-436, 1322) | clock_set, clock_offset_s, clock_synced_ms, next_attempt_ms, known settings | set time, sync time, daily maintenance | link | mode manual changed at the device; two-step write; a write whose answer is lost or late | the time reported as known is the device's; a device left in auto gets its time |
| Setting and reading commands (`handlers.c`, `core/control.c`) | none of their own; AmlState (`core/state.c`) | one or two exchanges each | link | read-modify-write, other settings written as last read | only what was asked changes, and what was acknowledged stays |
| Transport (`aml/transport.c`) | RFCOMM socket, parser | connect, send, receive with deadlines | kernel | partial reads and writes, EINTR, deadlines, a link opened again | the frames sent, in order, whatever the pieces; a frame or an error before the deadline; requests leave whole |
| Frame parser (`aml/protocol.c`) | buffer | feed, next | transport | noise, false starts | every frame after noise is found |
| Command tree (`command/*.c`) | tree and flat registry | add, alias, find, validate, execute | handlers | name and alias collisions | each path names one command |
| Configuration (`core/config.c`) | - | load | files | - | - |
| IPC protocol (`ipc/ipc_protocol.c`) | - | parse, response | json-c | - | - |
| MQTT bridge (`mqtt/sweetdawn_mqtt.py`) | cache, published, refresh_due, queue `commands` | execute, refresh, handle_event, announce, republish | IPC (two connections), broker | older events after newer readings, two writes from one cache, the broker or the service restarting | what Home Assistant shows is what was read last, and in the end the device as it is |
| `ctl.c`, `cli.c` | - | one request, or follow events | IPC / device | - | - |

The hazards behind this table, each at its line of code, are in `PROJECT.json`
("hazards"), with the properties that catch them or the reason why none does yet.

## 2. Modules and code

| Module | Role |
|---|---|
| `AlarmWatch` | alarm tracking, with the device and the radio |
| `MCAlarmWatch`, `AlarmWatch*.cfg` | its instances for TLC |
| `AlarmWatchProofs` | its inductive invariants and six theorems |
| `Link` | link supervision, with the device, the radio and time |
| `MCLink`, `Link*.cfg` | its instances |
| `LinkProofs` | its inductive invariants and four theorems |
| `Dialogue` | what the IPC server promises to a client: the abstract specification |
| `IpcServer` | the server loop; implements `Dialogue` through the mapping `Promesse` |
| `MCIpcServer`, `IpcServer*.cfg` | its instances |
| `IpcServerProofs` | its inductive invariants, its theorems and the refinement of `Dialogue` |
| `SocketLifecycle` | the socket file, several services started on one path |
| `MCSocketLifecycle`, `Socket*.cfg` | its instance |
| `SocketProofs` | its inductive invariant and five theorems |
| `AmlClock` | settings, clock and alarms of the device: what the service writes and believes |
| `MCAmlClock`, `AmlClock.cfg` | its instance |
| `AmlClockProofs` | its inductive invariant and three theorems |
| `Transport` | the Bluetooth socket, byte by byte, and the frame parser |
| `MCTransport`, `Transport.cfg` | its instance: the noises and the frames |
| `TransportProofs` | its inductive invariants and five theorems |
| `Recurrence` | that recursive functions exist: on the natural numbers, and on values of a smaller rank |
| `MqttBridge` | the bridge to Home Assistant, with the service, the lamp and the broker |
| `MCMqttBridge`, `MqttBridge.cfg` | its instance |
| `MqttBridgeProofs` | its inductive invariant and four theorems |

The first three components meet in the service's thread: `Link` gives `AlarmWatch` its
exchanges (its `Repondu`, `Echoue`, `Perdre` are what a caller of `Link` may see: an
answer, a failure with or without the link), and `AlarmWatch`'s `Diffuser` is
`IpcServer`'s event. Each module keeps the others as environment: an exchange may fail
or lose the link at any moment in `AlarmWatch`; in `Link` a client may ask at any free
moment; in `IpcServer` the periodic task may broadcast at any turn. These are more
behaviours than the composition has, so the safety properties carry over. `Transport` lies
under `Link`, which takes from it that a reading gives a whole frame of this link, a timeout
or the end of the link, in the order of the device. `AmlClock` uses the same exchange as
`Link` (its late answers included) under other handlers. `MqttBridge` sees the service
through its two connections only: a request is answered, refused or fails, an event comes
later.

**AlarmWatch.** `pc` says what the thread does: `boucle` (between turns), `tick`,
`traiter` (the queue), `lumiere`/`ambiance` (relire_eclairage), `suivre`, `status`,
`alarmes` (the loop of suivre_reveil), `presumer`, `stop`, `snooze`. During an exchange
(`Envoyer` ... `Repondu` or `Echoue`) frames that are not the answer go through
`Noter` = `handlers_on_event`. `lever` and `sonne` are the device's truth: the alarm
that holds the lamp and the alarm that rings; a tap leaves no trace but a change of
those. The clock is the flag `a_relire` (a second has passed) and minutes left in
`fin_snooze`. `arret` is a history variable of the last Alarm/Stop.

**Link.** `pc` is `libre`, `connexion`, `envoi`, `reponse` or the reading of events.
Absolute dates of the code are times left. The field `de` of a frame ("sienne" or
"tardive": the answer awaited, or one that comes after the end of its exchange) is history
the program cannot read. `silence`, `essais` and `abandonnees` are history: time since the
last answer on an open link, links that failed in a row, what this link was asked and did not
answer in time. One call of `lire_evenements` (`LireEvenements`, `Envoyer`) takes any number of the
frames that have arrived, up to `LectureMax`: `aml_receive` may say TIMEOUT after one read of 256 bytes,
or after an interrupted poll, while frames are left.

**IpcServer.** Bytes of a line are `Octet`s then an end that carries the request;
messages are two pieces, text and end, so partial reads, partial writes and mixtures
are visible. `pc` is the place in the turn; `a_servir` the places poll has signalled.
Clients act only at `poll` and `servir`: the other steps read nothing of them.
`Interrompu` is poll's EINTR, `AccepterEchoue` an accept that fails.

**SocketLifecycle.** `etape[p]` is the next system call of the process `p`, from `bind` to
the `unlink` of the cleanup; `chemin` is what the path names: nothing, an ordinary file, an
old socket, or the socket of the process that bound it. A process may be killed before any
call (`Mourir`). `accompagnes` (who was not alone all its life) and `anciens[q]` (who was
alive when `q` began to listen) are history. It stands apart from `IpcServer`, which begins
where `boucle` does.

**AmlClock.** `pc` is the request whose answer is awaited (`lire`, `ecrire`, `heure`, `al_lire`,
`al_ecrire`) or `libre`.
`appareil` and `decal` are the device's settings, alarm and clock (as an offset); `state`,
`known`, `clock_set` and `clock_offset` what the service believes of them. `inbox` and `wire`
keep requests and answers in order; as in `Link`, `de` tells a late answer from the awaited
one, for the histories and for the moment a time is taken. Four kinds of commands (`autre`: a setting, `time`: the mode,
`heure`: Set time and Sync time, `alarme`) are used in sets, one set for a behaviour, and the
buttons act on what the set touches. `passe` counts the seconds between the computation of a
time and the moment it is noted, up to the five of the timeout; seconds pass in the model where
times are given by clients (and by the daily task that follows). Each synchronisation keeps the
seconds it has lost as its next offset, so offsets have no lower bound: `Retenir` counts those
below `-DeriveMax` from there, the device's and the one held together. `EntretenirHorloge` = `entretenir_horloge`, which sends at the first
occasion, then once a day (`echu`), and not in the ten minutes after a failure (`patience`).
`touche`, `du` and `doute` are history: what buttons changed during the exchange, what was
acknowledged, and that the clock was touched or sent to without an answer.

**Transport.** The bytes of a link are chosen when it opens; `lus` says how many were read,
`tampon` is the parser's buffer. `Debut`, `Rejet`, `Complete` and `Extraire` are
`protocol_parser_next` and its resynchronisation, on bytes; `TramesDe` is the reference they are
compared with, written apart: the frames of a whole stream, from its first byte on.
`pc` is `cherche` (take a frame from the buffer), `poll`, `envoi` (a request that has begun),
`perdue` (a failure its caller has not followed by `aml_disconnect` yet) or `libre`. A byte not
read may have arrived or not, so each poll may find bytes, wait until the deadline, or be
interrupted; a read takes any number of them up to `ChunkMax`. Requests are counted in bytes:
the length they declare, what remains to be sent, and what the device still waits for.

**MqttBridge.** `pc` is the place of the main thread: `file` (it waits for an item), `on_lire`
(already_on), `commande`, `ev_lire`, `du_lire`, `poll_status` and `poll_lire` (a reading is asked
or answered), `dues` and `poll` (the rest of the turn). The thread of the MQTT client
(`on_connect`, `on_message`) and the listening thread (`listen_events`) only put items in
`commands`. Two groups stand for all: status, and Mood reduced to one lamp, because an ON given
to a lit lamp would start its scene again. `tard` is a command whose client has given up but
which the service still executes later. `retained` is what the broker keeps of each topic; a cut
may lose it. `vieux` marks a queued event older than the last change. With `explique` (others
changed the lamp since Mood was read, or that reading failed, or such an event was taken), `depasse` (a
command given up was executed since Mood was read) and `surprise` (any of these since an ON was taken
or checked) it is history.

## 3. Runs

| Run | Instance | Question | Result |
|---|---|---|---|
| `alarm_safe` | 2 alarms, stop and snooze, gestures, queue of 1, snooze of 1 minute | TypeOK, WatchCovers, RungIsTracked, ClientsUpToDate, SnoozeHasItsTime, StopGivesIdle | hold (4.2 million states) |
| `alarm_live` | 1 alarm, timer ends, queue of 2 | CalmGivesIdle, RingIsShown under fairness | hold |
| `alarm_stop` | 1 alarm, 2 frames in flight | StopIsKnown, the README's promise | **violated** (section 6) |
| `link` | 3 failures tolerated, delay 1 to 5, 2 frames in flight, emptied one at a time at most | TypeOK, BackoffFollowsFailures, SilentLinkEnds, WrongAnswerHasACause; StateIsFresh under fairness | hold (1 million states) |
| `link_answer` | the same, 2 failures | AnswerIsOwn, the promise of a comment | **violated** |
| `ipc_safe` | 3 subscribers, 2 places, one line each of 1 or 2 bytes for a buffer of 2, an event, a queue of 2 messages | NoLineForgotten, Implements (Dialogue), ClosedForCause | hold (3.8 million states) |
| `ipc_live` | 1 client, 3 lines of 0, 2 or 3 bytes, buffer of 3 read by 2, 2 events | TypeOK, ReceivedIsSound, Implements; AnswerArrives under fairness | hold (409 000 states) |
| `socket` | 4 starts of the service, the path free, a file or an orphan at first | TypeOK, AloneIsServed, OnlyAKillLeavesASocket, OrdinaryFileKept, NewcomersAreHarmless | hold (492 000 states) |
| `socket_active` | the same | ActiveIsNeverRemoved, the README's promise | **violated** |
| `clock` | three sets of commands, offsets 0 and 4, exchanges of up to 5 seconds, 2 requests in flight | TypeOK, ClockKnownIsTrue, AckedStays; ClockConverges under fairness | hold (709 000 states) |
| `transport` | ten kinds of noise, frames of 12 to 20 bytes, reads of at most 7, requests up to the capacity | TypeOK, ChunksDoNotMatter, NoiseCostsNoFrame, TimeoutIsTrue, RequestsLeaveWhole | hold (129 000 states) |
| `bridge` | three disturbances: commands, buttons, cuts, restarts, failed exchanges | TypeOK, PublishedIsShown, CommandedIsReread, OnIsForADarkLamp; ShownInTheEnd under fairness | hold (620 000 states) |

Every property of a passing run has a mutant in `PROJECT.json`: the change of one
definition that a slip in the code would make, under which TLC finds the property false.

What the properties say, in short:

- **WatchCovers** an alarm shown in progress, or a remembered stop, is being watched.
  **CalmGivesIdle** a device that stays calm ends up shown idle, **RingIsShown** a ringing
  that lasts ends up shown, whatever was lost before.
- **RungIsTracked** and **SnoozeHasItsTime** relate what is shown to what has rung and to
  the deadline; **ClientsUpToDate** to what was broadcast last: whenever the service waits, the
  clients have what it holds, except that while `presumer_snooze` reads an alarm, what the same reading
  has changed in the alarms before it is marked and not sent (up to 5 s, the timeout of that exchange).
- **StopGivesIdle** a stop that finds no older message of an alarm queued is never shown
  as a snooze, until the device starts an alarm.
- **SilentLinkEnds** an open link without answer is dropped within
  `RefreshInterval + (MaxFailures - 1) * max(DelaiReponse + RefreshRetry, DelaiLong) + DelaiLong`.
  With the code's constants that is 105 s, and the bound is reached: requests of clients
  with long timeouts put the refresh off.
- **WrongAnswerHasACause** a frame taken for the answer of a request is that answer, or the late answer
  to a request of the same kind that this link gave up: never one of an older link, nor of another kind.
  **BackoffFollowsFailures** the delay before the next connection is the minimum doubled at each link that
  failed in a row, up to the maximum. It says nothing of when the connection is tried.
- **Implements** each client receives its answers, whole, once, in order, and from its
  subscription on every event; **NoLineForgotten** poll never sleeps on a line that could
  be treated; **ClosedForCause** a client that stays is closed for its own behaviour only. A line that fills
  the buffer before its end is one of its causes, and so is, as the code is, a line of exactly the size
  that the documents promise (section 6).
  **ReceivedIsSound** what a client has read is whole messages and a beginning of one, its
  answers numbered 1, 2, 3... and its events without a gap.
- **AloneIsServed** a service that is always alone is refused for an ordinary file only, and
  the path leads to it; **OnlyAKillLeavesASocket** a service that ended by itself has left no
  socket; **OrdinaryFileKept** a file that is not a socket, and was there before the first start, is never
  removed;
  **NewcomersAreHarmless** a socket in use is removed only by a process that was alive when it
  began to listen: this is what remains of the promise that `socket_active` refutes.
- **ClockKnownIsTrue** a time reported as known is the device's, to the second the rounding
  takes, unless buttons touched the clock or a time was sent without an answer since;
  **ClockConverges** a device left alone in auto ends up with its time known, and true whenever the
  service can be asked for it, whatever happened before: while the service waits for the answer of a time,
  the device may have taken it and be behind the offset held by the seconds of the exchange. **AckedStays** what was acknowledged to a client is on the device until
  buttons or another write of the same thing change it, though settings and alarms
  are written whole.
- **ChunksDoNotMatter** the frames returned on a link, and those still in the buffer, are those of
  the bytes read on this link, however they were cut and whatever an older link left;
  **NoiseCostsNoFrame** noise never costs a true frame that it does not cover;
  **TimeoutIsTrue** a call lasts its timeout at most, and a timeout is said only when it is over and
  no frame is in the buffer; **RequestsLeaveWhole** the device never takes the rest of a
  request and the start of another for one.
- **PublishedIsShown** what the bridge holds for published is what the broker keeps;
  **CommandedIsReread** after a command, done, refused or given up, the cache has the lamp as it is or a
  reading is due, unless others changed it, the reading failed, an older event replaced it, or a command
  given up was executed after the reading; **OnIsForADarkLamp** an ON is sent for a lamp that is off and
  dropped for one that is on, as read for this ON, unless that reading failed or the lamp was changed
  between it and the decision; **ShownInTheEnd** when the disturbances end, Home Assistant shows the device as it is.

Bounds, and why they are enough. Two alarms are all the device has, and the smallest
number where one can overwrite the other. A queue of one or two messages is filled by
the events of the instance, as 16 would be by more; `RingIsShown` needs the queue to have
a place left by the timer ends (4 of 16 in the code), so its instance has two places. One
or two frames in flight give "before" and "after" an answer. In `Link`, a limit of three
failures, a delay with two doublings and a long timeout of two units give every order of
the deadlines; `LectureMax` is below `WireMax`, so frames are left behind by a reading as they are when more
than 16 are waiting. Three clients for two places give a refusal, a place used again and two
clients in one turn; two clients that are both served are enough for one to be answered
in place of the other. A line too long for the buffer occurs in both runs of `IpcServer`; lines
in pieces, several in one read and an event behind a response in `ipc_live`. Four starts
are one more than the longest order seen to matter (one that listens, one that found it
not listening yet, a third that comes later); the proofs hold for any number. Counters that would be unbounded
are stopped by a bound named in the constants (`WireMax`, `InboxMax`, `EssaisMax`,
`LignesMax`, `EvtsMax`, `FileMax`, `AleasMax`, `DeriveMax`). In `AmlClock` two settings and two fields of an
alarm are the least where writing one can undo the other; `Delai` is the timeout of the code, and an offset of 4 is one that
the rounding of a second does not take for 0 and that an exchange can bring below 0; the commands come in three sets since what they
share is the settings (`autre` and `time`), the clock (`heure`) and the exchange (`alarme`). In
`Transport` the noises are every way a start of frame can be false: alone, cut, with a length
that covers a part of the next frame, all of it or too much, too small, and a damaged end; the
buffer is the largest incomplete frame and one read, as the code's must be, and 248 argument bytes are the
first that a request cannot hold. In `MqttBridge` three disturbances give a command, its
failure and a change of somebody else; the proofs hold for any number. `SYMMETRY` is used in `ipc_safe` and `socket` only, where the
clients and the starts are interchangeable and no liveness is checked. `CHECK_DEADLOCK FALSE`
is only in the runs of `IpcServer`, where the server really stops, and of `SocketLifecycle`,
where all of them may have ended.

## 4. Fairness

- `AlarmWatch`: weak fairness of the steps of the thread that wait for nobody, and of the
  device's answer; strong fairness of `Tick` and of receiving a frame (the loop turns at
  least once a second: a request of a client can delay it but not for ever, since clients
  are served one line per turn), and of the clock.
- `Link`: weak fairness of an exchange and of a connection (both have deadlines), strong
  fairness of `Tick` and of time. `StateIsFresh` assumes `Coopere`: from some point on the
  device is in range, does not hang up, and its answers come before the deadline and are
  well formed. Nothing is assumed about clients.
- `IpcServer`: weak fairness of the turn, and strong fairness of a poll that finds the
  socket of a client writable: a client that reads makes room. `Diffuser` is bounded by
  `EvtsMax`, that is, the device is calm in the end; without it a subscriber could be kept
  from being read for ever (its queue is never empty), see the hazards.
- `SocketLifecycle` and `Transport`: none, only safety is stated.
- `AmlClock`: weak fairness of the end of an exchange (it has a deadline), strong fairness of
  the periodic reading, of `EntretenirHorloge`, of the day and of the ten minutes that pass.
  `ClockConverges` assumes a calm device in the end: in auto mode, no more buttons, commands nor link
  lost, requests treated, and no timeout while an answer is on its way.
- `MqttBridge`: weak fairness of the main thread, of `on_connect`, and of what systemd, the
  supervision of the link and the client's reconnection bring back: the service, its link, the
  broker. Disturbances are finite (`AleasMax`), which is the "in the end" of `ShownInTheEnd`; the
  event of a change may be lost, the poll is what repairs it.

## 5. Proofs

TLAPS checks, for any number of alarms and of services, any durations, sizes and delays
allowed by the named assumptions `ConstantsAssumption`, `LinkAssumption`,
`SocketAssumption`, `ClockAssumption`, `BridgeAssumption`, `IpcAssumption` and `TransportAssumption`
(sets of values, distinct names and orders between delays, nothing else), and
`TramesAssumption` (what the device calls a frame of its stream is one for the parser):

| Theorem | Property |
|---|---|
| `AlarmWatchProofs!Typed` | TypeOK |
| `AlarmWatchProofs!Watched` | WatchCovers |
| `AlarmWatchProofs!Tracked` | RungIsTracked |
| `AlarmWatchProofs!Announced` | ClientsUpToDate |
| `AlarmWatchProofs!SnoozeTimed` | SnoozeHasItsTime |
| `AlarmWatchProofs!StopsForGood` | StopGivesIdle |
| `LinkProofs!Typed` | TypeOK |
| `LinkProofs!SilenceBounded` | SilentLinkEnds |
| `LinkProofs!BackoffTrue` | BackoffFollowsFailures |
| `LinkProofs!WrongAnswersExplained` | WrongAnswerHasACause |
| `IpcServerProofs!TypeCorrect` | TypeOK |
| `IpcServerProofs!NoLineForgottenHolds` | NoLineForgotten |
| `IpcServerProofs!ClosedForCauseHolds` | ClosedForCause |
| `IpcServerProofs!ImplementsHolds` | Implements |
| `IpcServerProofs!ReceivedSound` | ReceivedIsSound |
| `SocketProofs!SocketTypeCorrect` | TypeOK |
| `SocketProofs!LoneServiceServed` | AloneIsServed |
| `SocketProofs!CleanEnds` | OnlyAKillLeavesASocket |
| `SocketProofs!FileKept` | OrdinaryFileKept |
| `SocketProofs!NewcomersKept` | NewcomersAreHarmless |
| `AmlClockProofs!ClockTyped` | TypeOK |
| `AmlClockProofs!KnownTimeTrue` | ClockKnownIsTrue |
| `AmlClockProofs!ChangesStay` | AckedStays |
| `MqttBridgeProofs!BridgeTyped` | TypeOK |
| `MqttBridgeProofs!BridgeShows` | PublishedIsShown |
| `MqttBridgeProofs!BridgeRereads` | CommandedIsReread |
| `MqttBridgeProofs!BridgeKeepsScene` | OnIsForADarkLamp |
| `TransportProofs!ParserNeverFull` | TypeOK |
| `TransportProofs!RequestsWhole` | RequestsLeaveWhole |
| `TransportProofs!FramesInOrder` | ChunksDoNotMatter |
| `TransportProofs!NoiseHarmless` | NoiseCostsNoFrame |
| `TransportProofs!TimeoutsTrue` | TimeoutIsTrue |

*AlarmWatch.* The inductive invariant is the conjunction of the properties above and of
two facts they need: while the status is read or its result used, `surveiller` is true
(`WatchedWhileReading`: suivre_reveil clears it only after having looked at every alarm),
and in `presumer` the alarm at hand is ringing (`PresumesOfRinging`), which is
what makes the presumed snooze one of a ringing. Each conjunct is preserved action by
action; most steps change one part of the state and the others follow from UNCHANGED.
`StopsForGood` has an invariant of its own (`StopInv`): once the stop is acknowledged (C9) and no
older message of an alarm is behind it in the socket, in the queue or in the loop that empties it,
the device has nothing in progress and every status it sends says so. Frames are first in,
first out, `lu` does not outlive the loop, and `arret_demande` is forgotten only when every alarm
is idle.

*Link.* `silence` cannot be bounded alone: the invariant gives it a budget that depends
on where the program is. Between two exchanges, with `k` failures counted, the silence
plus the time left before the next refresh is at most `RefreshInterval + k * PasParEchec`;
during an exchange the time left before its deadline joins it. Each failure spends one
step of the budget, the last one abandons the link, an answer resets everything. The
arithmetic steps are separate lemmas on natural numbers. `BackoffTrue` writes the delay after `k`
failures with the powers of two, a recursive function whose existence `Recurrence` proves: doubling
under the cap and capping the doubled value agree (`DoubleSuit`). `WrongAnswersExplained` follows every
frame from the device to the program (`AnswerInv`): it is the answer of the exchange in progress, and there
is one at most, or a message of the device, or a late answer of a kind of request that this link has
given up. An exchange that fails on a link that is kept adds its kind to these as its answer becomes late, and
a new link starts with nothing on its way. No hypothesis on the number of frames is needed.

*IpcServer.* The order of the answers is `OrdreInv`: with what the flow of a client has answered so
far, the ends of lines in its buffer and on their way to the server are the lines that it has sent and
that have no answer yet, each once and in order (`EnOrdre`). `ServirInv` says that a place that
poll has signalled is taken and, if it is to be read, holds no complete line. `NoLineForgotten`
is part of the invariant: after `Traiter` a place either holds no complete line or has an answer to send.
For the refinement, the state of `Dialogue` is read from the table: the flow of a client is what it has
received and the rest of its output buffer, so a partial write moves the limit between the two
and is a stutter, like a read. ClientEcrit is Demander, Accepter is Ouvrir (or Clore, when the
table is full), Traiter is one Repondre for all the places that had a line, Diffuser is Diffuser with
the clients that are too late, and a hang-up, an error, or the end of the server is Clore.
`ReceivedSound` is then proved on `Dialogue`'s actions only, which is the use of the refinement: the flow
of an open client is whole messages, its last event is the last one broadcast if it has subscribed (there is
none before, `SuiviDe`), and what has been received is a beginning of it.

*SocketLifecycle.* None of the properties is inductive: each says what a step may do at the
end of a way that began several calls before. The invariant bars the way instead: while the
path names a file (`FileInv`), or a socket in use (`NewInv`), which processes are past the
calls that look at it; `AloneInv` gives, for a process alone since its start, what the path
names at each of its calls. `OwnInv` ties `owns_socket` and listening to the place in the code.

*AmlClock.* A late answer cannot be told from the right one, so nothing follows from an answer
alone. The invariant says what the program cannot see: the request of the exchange is the last
of its queue and carries what the command wants (`DemandeInv`), and its own answer, once there,
is alone, and the device has done what was asked unless its buttons undid it since (`FaitInv`).
A promise made to a client or to the clock then only has to agree with everything on its way to
the device and back, and with what the service remembers (`HeureInv`, `AutreInv`, `AlarmeInv`):
for a setting that includes `state`, because the next write of another setting sends it again.
Most steps only remove or age messages (`Moins`) or add one request (`EnvoyerInv`).

*MqttBridge.* Two facts join the properties. `FilInv` says which answers may be in `rep` at each
place of the thread (a status is never refused, an ON is what `on_lire` is for). `LuInv` says
that an answer that waits, and an event not marked old, hold the lamp as it is unless others
changed it or a command given up was executed since. `PublishedIsShown` needs no more than the queue: an announcement in it suspends the promise
until `Republier` forgets what was published, and `publish` restores it topic by topic
(`PublishShows`). The action property follows from the invariant at the only step that leaves
`on_lire`.

*Transport.* While the program waits (`TamponInv`), its buffer holds an incomplete frame at most: the
parser stops at the first place that is not rejected (`DebutAcceptable`; that the least one
exists follows from the library's well-foundedness of the natural numbers), and bytes not rejected that reach the
length of their header are a frame (`ResteCourt`). So a read of `ChunkMax` bytes fits, whatever
the bytes. `EnvoiInv` ties what remains of a request to its length byte until the device knows it.
`FramesInOrder` compares two ways to cut a stream in frames: `TramesDe` cuts it whole, the program as
it arrives. `DecoupeInv` says that they agree whatever comes next: for every continuation `e`, the bytes
of the frames already returned followed by the frames of `tampon \o e` are the frames of everything read and
`e`. `TramesDe` is a recursive function of the bytes that remain; that such a function exists
is proved once (`ParRang`, in `Recurrence`), and the inductions are on the length of a list, with what is
to be proved given as a set of numbers (lemma `Recurrence`).
`NoiseHarmless` adds where the noise lies among the bytes (`BruitInv`), `TimeoutsTrue` that the time spent in
the polls of a call never exceeds the timeout it was given (`TempsInv`).

TLC checked every property, and the invariants above, before the proofs. What stays model-checked only is
liveness, since the prover does not handle fairness or ENABLED: CalmGivesIdle, RingIsShown, StateIsFresh,
AnswerArrives, ClockConverges and ShownInTheEnd.

## 6. Disagreements with the documents

1. **A stop may be shown as a snooze** (`alarm_stop`). A ringing (C7) noted in the queue
   before the answer of Alarm/Stop is treated after it and clears `arret_demande`
   (`handlers.c:1196`): the next reading finds that the ringing has ceased, and a snooze is
   presumed, for 1 to 30 minutes and the margin. The project's README says a stop through
   SweetDawn is known and gives idle at once. `StopGivesIdle` is what does hold.
2. **A late answer may be taken for another's** (`link_answer`). `envoyer_requete` sets
   aside what had arrived before sending, but the answer to a request that timed out may
   arrive afterwards, with the same code as the next request of that kind. The comment
   above says such answers are set aside. Nor is everything that had arrived read:
   `lire_evenements` stops after 16 frames, or at the first TIMEOUT, which `aml_receive` may say with
   frames left (below). `WrongAnswerHasACause` is what does hold: only a request of the same kind,
   given up on the same link, can be the cause.
3. **A socket in use may be removed** (`socket_active`). `ipc_server_init` tests the socket,
   then unlinks the path: a service that has bound and not yet called `listen` refuses
   connections like an orphan, and is unlinked once it listens. `ipc_server_cleanup` closes its
   socket before it unlinks the path, which by then may be another service's. The project's
   README (line 295) says a socket still in use is never removed. It takes two services started
   within an instant; `NewcomersAreHarmless` and `AloneIsServed` are what does hold.

Read in the code while modelling, without a run of their own (a model that shows them states
the condition under which its properties hold instead):

- `arret_demande` and the queue survive a lost link, so messages noted before the loss are
  treated as fresh after the reconnection; a failing `relire_eclairage` is not retried and the
  change of light is not broadcast; answers too short to be read never count as failures of the
  link, since the exchange itself succeeded.
- A SIGTERM between `sigaction` and `stop_requested = 0` (`ipc_server.c:726`) is forgotten. The
  input buffer holds the end of line too, and `read_client` cuts a full buffer: a message of exactly
  the 4096 bytes that the README (line 180) and `ipc_server.h:54` give is not accepted.
- `noter_heure` compares the time sent with the time when the answer came: each daily resync
  with an offset of its own may lose the seconds of its exchange, up to 5, and keep the loss as the next
  offset, day after day and without end, whereas `docs/COMMANDS.md:40` says the chosen offset is kept; an
  offset within a second of 0 becomes 0. The clock is set "when
  it connects" (README line 133) at the first occasion after the start only, then daily.
- A device put in manual, changed with its buttons and put back to auto between two readings
  keeps a time reported as known, and wrong until the next daily resync; so does a Set time that
  the device applied and whose answer was lost. `doute` in `ClockKnownIsTrue` is this:
  the property does not catch these cases, it says that there are no others.
- A setting changed with the buttons since it was last read is undone by the next write of another one,
  which sends all of them as last read (and an alarm in the same way): `AckedStays` speaks of what was
  acknowledged to clients, and buttons end what it expects.
- The code F3 answers both the reading and the writing of an alarm: a late answer of a write,
  too short to be an alarm, makes the next reading fail.
- `aml_receive` may return a timeout after one read although a whole frame waits in the
  socket, beyond these 256 bytes, and with a timeout of 0 after an interrupted poll without
  having looked (`transport.c:356-362`): the header (line 89) says a frame that has arrived is returned.
  `TimeoutIsTrue` speaks of the frames in its buffer. The length byte of a request would wrap
  without the 259 bytes of its capacity.
- In the bridge, the binary sensor `connected` is said to tell that the service is away
  (`sweetdawn_mqtt.py:543`), but `refresh` then publishes the availability alone (715-717) and leaves
  the sensor ON. Two events of one thing queued behind a command with a poll in between: the
  older one replaces what was just read, until the next poll. `close` publishes offline while the
  client's thread may still announce (line 868). After a republish, a group whose reading fails keeps
  the value the broker had. A reading that fails before an ON leaves the cache to decide, and a button
  pressed between the reading and the decision is not seen. A command given up, and executed by the service
  after the bridge has read the lamp again, shows at the next poll only.
- `ipc_server_cleanup` unlinks its path without looking at it (`ipc_server.c:1000-1003`): an ordinary file
  that somebody put there while the service ran, after having removed the socket, is lost.

## 7. What is not modelled

Every component is listed in `PROJECT.json` with its status. Data: colours, volumes, JSON
and frame bytes (no property of these modules tells them apart). Lack of memory and
responses longer than the output limit close a client and are left out. The real duration
of system calls, and clocks that jump. `Link` leaves out `connect_count`, which is
`nouvelle` in `AlarmWatch`. The command tree, configuration and pure conversions hold no
state that changes after the start. `Transport` leaves out `aml_flush`, which nothing in the
service calls, and unlimited timeouts, which nobody asks for. `AmlClock` leaves out the
calendar: daylight saving, leap days, `next` of an alarm. `MqttBridge` leaves out the entities
other than the lamp and the availability (their groups follow the same path), the delay
of a second before a due reading, and the end of the process; two writes of one alarm
computed from one cache (`sweetdawn_mqtt.py:308`) are in the hazards.

## 8. Plan

Done, in this order because the first three carry the behaviour the users see:

1. `AlarmWatch`, 2. `Link`, 3. `Dialogue` and `IpcServer`, 4. `SocketLifecycle`, 5. `AmlClock`,
6. `MqttBridge`, 7. `Transport` with the parser; the proofs of their safety properties.

Next:

8. Refinements: an abstract `AlarmReport` (what a client may see of an alarm) implemented by
   `AlarmWatch`; an abstract request and response implemented by `Link`.
9. `CommandTree`: collisions of paths and aliases, whatever the order in which modules register.
