# Formal model of the Awakari Telegram bot

TLA+ modules, TLC configurations and TLAPS proofs for the bot of this
repository. The bot sits between Telegram and the Awakari services: it lets a
user create interests and follow them in a chat, delivers to the chat the events
the hub posts for them, publishes messages and channel posts, and adjusts usage
limits to memberships of paid channels. It keeps next to no state of its own, so
what can go wrong lies in the order of the calls it makes, in what it tells its
peers when one of them fails, and in what concurrent handlers do to shared
tables of other services.

Paths below are relative to `src/`.

## Inventory

| Part | Code | State | Operations |
|---|---|---|---|
| Delivery of results | `service/chats/handler.go`, `error.go` | per request: the batch, `countAck`, `err`; flood goroutines; the hub's cursor and callback table | `Confirm`, `DeliverMessages`, `deliver`, `handleFloodError` |
| Paid limits | `service/paid.go`, `service/limits/service.go` | per handler: `chanByLimit`, the loop over it; roles in Telegram; limits in the usage service | `Handle`, `ensureLimit`, `memberChannels`; `Get`, `Set`, `Delete` |
| Start and stop | `service/subscriptions/start.go`, `stop.go`, `api/http/subscriptions` | the hub's table of callback URLs | `Start`, `Stop`, `Subscribe`, `Subscription`, `Unsubscribe` |
| Lists | `service/subscriptions/list.go` | the cursor, in 64 bytes of callback data | first page of three lists, `PageNext`, `PageNextFollowing` |
| Dialogue | `service/root.go`, `callback.go`, `service/subscriptions/create.go`, `start.go`, `service/support` | none: the words of prompts and buttons | routing of commands, replies and presses; `StartHandler`, validation and creation |
| Publishing | `service/messages/channel.go`, `publish.go`, `api/http/pub` | the backoff of a post; the service's limit | `Publish` of posts, the reply to `/pub` |
| Conversion | `service/messages/publish.go`, `format.go` | none | `toCloudEvent`, `Convert`, `header`, `truncateStringUtf8` |
| Consumer | `api/grpc/queue/service.go`, `main.go` | the stream, the batch, the `err` of `main` | `SetConsumer`, `ReceiveMessages`, `consumeQueueInterestsCreated` |
| Interests client | `api/http/interests`, `model/interest` | the interests of the service | `Create`, `Read`, `Delete`, `Search`, encoding and decoding of condition trees |
| gRPC API | `api/grpc/tgbot`, `service/messages/channel.go` | a map of channels nothing fills | `Authenticate`, `ListChannels` |
| Pools, logging, donation, configuration | `api/grpc/usage/limits/client_pool.go`, `*/logging.go`, `service/donation.go`, `config` | connections | none of interest |

How they interact. The hub (WebSub) POSTs batches of events of one interest to
the callback URL of a chat, one request at a time; the handler forwards them to
Telegram and answers `X-Ack-Count`. `Start` and `Stop` register and remove the
URL; the delivery removes it too, when the user blocks the bot or Telegram says
*flood*. A chat is registered under a URL with the id of the user who linked it, so
once for each user of a group who did, and possibly, from older versions, under one
without a user id. telebot runs each update's handler in a goroutine of
its own, so handlers of one user overlap. Nothing is persisted by the bot: after
a crash the hub, the queue and Telegram are what is left.

What is hard, and what makes each part correct:

- *Delivery*: a batch fails half-way, an answer is lost while the handler goes
  on and the batch is posted to a second call, a replica dies with its
  goroutines. Nothing may be lost or get ahead of an earlier event; copies need
  a fault; the feed must not get stuck; a flood must end the stream.
- *Paid limits*: memberships are read one by one and acted upon later; removing
  the user causes the next update. One channel at most must be left, the limits
  must fit, and the cascade must end.
- *Start and stop*: look-up and removal are two calls with others in between,
  either may fail, and deliveries remove callbacks behind them. Replies and
  removals must account for the table, and a user must not get stuck with a
  link of their own.
- *Lists*: a cursor is used long after it was written, and may be cut. What does
  not change is shown exactly once, and paging ends.
- *Dialogue*: prompts and buttons come back at any time. The bot must
  understand its own words and follow nothing the user did not name.
- *Interests*: conditions are trees which other clients make too, of kinds and
  with operators the bot never uses. Reading one must give what is stored or an
  error, and what the user described must be what is stored.
- *Publishing*: an acknowledgement is lost and the backoff sends again. An
  unacknowledged post is never taken for published, copies need a lost answer.
- *Conversion*: Telegram refuses a file or markup, texts are cut in bytes. The
  text survives the fallbacks and no character is cut in half.
- *Consumer*: a stream ends or breaks between consumption and acknowledgement.
  At least once, in order, and with no endless restart. Its error lies in a
  variable other goroutines assign.

`PROJECT.json` lists these hazards at their lines.

## Modules

`Feed` is the abstract specification: an in-order, at-least-once consumer which
never tells its source to forget an event it has not dealt with. Two components
promise it, and are shown to implement it:

```
Feed  <---- refines ----  Delivery    (MCDelivery: TLC; DeliveryProofs: TLAPS)
      <---- refines ----  Consumer    (ConsumerProofs: TLAPS)
Stream  ---- Subscriptions and Delivery over one table of callbacks
                                      (MCStream: TLC; StreamProofs: TLAPS)
PaidLimits                            (MCPaidLimits: TLC; PaidProofs: TLAPS)
Dialogue  ---- extends Interests, which extends Conditions; over one-step
               versions of Subscriptions and Listing
                                      (MCDialogue: TLC; DialogueProofs: TLAPS)
Publishing                            (PublishingProofs: TLAPS)
Listing                               (ListingProofs: TLAPS)
Messages, Truncation                  (ConversionProofs: TLAPS)
```

**Delivery** models one feed: the deliveries of one interest to one of the callback
URLs of a chat, `Form`, which carries the id `User` or none. The calls of
`Unsubscribe` try the URL with the id and the one without; other `Urls` of the chat
are left alone. `Requests` are concurrent calls of `DeliverMessages`; `pc[r]` is
where a call is, `html`, `plain` and `raw` being the three attempts to send the
event `Current(r)`. `Turn` is the head of the loop in `deliver`: an event
`ToProto` or `DataAs` refuses (`Poison`) ends it uncounted, an undecodable
payload (`Malformed`) ends the whole call. `SendFlood` starts three, two or one
goroutines depending on the mode, as each `case` of the code that finds the
flood error starts one; they are counted by stage in `flood`. After the raw mode
an event is counted and so skipped, and its error ends the loop. The hub (`Post`, `Timeout`,
part of `Respond`) waits for one answer, advances by its count and posts again
what it has not seen acknowledged; `Crash` kills any set of calls and of
goroutines. Each fault is one of `Faults` and at most `MaxFaults` happen.

**PaidLimits** models one user. A handler goes through the subjects (the three
calls of `ensureLimit`); `Ask` is one `ChatMemberOf`, in any order since the code
ranges over a map; `chanByLimit` is kept as the set of the channels in it, one
for each limit. `Get`, `Set`, `TellSet`, `Delete`, `TellReset`, `Ban` and `Unban`
are separate steps, each with its failure. A call that fails to change something
may have been carried out, its answer being lost. `AskFails` is a panic (below).

**Subscriptions** models `Start` and `Stop` of the `Users` of a chat as sequences of
hub calls, each with the outcomes the client tells apart. A command is `by` a user,
whose id the URL of its calls has; `Stop` goes on to the URL without an id. `alone` and `clean` record whether another
call ran, or a call failed, since a handler began; `links` counts what the
replies say is registered.

**Stream** puts `Subscriptions` and `Delivery` together for one interest in one
chat: it extends the one and instantiates the other, with `registered` and
`faults` shared. The events are those of one URL; of the deliveries to the other
URLs only what they do to the table is kept (`OtherFeeds`). A step of the delivery which removes a callback takes it off
`links` and ends what commands under way could count on (`Removes`). The calls
which found the bot blocked and the goroutines of a flood may remove a link made
long after they began. A crash ends handlers of both parts. `Subscriptions`
alone is run only for what one command does (`SubscriptionsRelink`).

**Conditions** has the conditions as the program keeps them (a kind, operators
numbered by `iota`) and as the JSON does (the field set in a `oneof`, operators
by name), `EncodeCondition` and `DecodeCondition` between the two, and
`ValidCondition`. A condition is a tree, kept as a function from places to nodes: a
place is the way to a part from the top, by the positions in the groups. The code's
recursion down a condition, which ends at the first error, is `Throughout`; what it
converts at each place does not depend on the others. `Wire` says which trees the
JSON can have. `Same` is the reference: it compares both forms by what they
mean, not by the conversions. **Interests** is the service: what is `stored`,
what `Create` and `Read` return for which answers, and how a reply of the user
becomes an interest. The conditions of other clients (`Foreign`) are any the JSON
can have; **MCDialogue**, which is only an instance, gives a tree with every kind,
logic and operation, and one with a part of a kind the bot does not know.

**Listing** models paging as sets in the order the services sort by, with the
callback data cut at 64 bytes by arithmetic on its length; the digits of a number
are counted with a table of powers of ten, up to `MaxFollowers`, which stands for
`math.MaxInt64`. `Search` looks at no status, so `ShowError` ends a list of public or
own interests at any page. **Dialogue** models
texts as sequences of words, and makes and names interests by `Interests`.
**Publishing** has one handler per message.
**Messages** passes a message of some kind, size and markup, or an event of another
source, through `Convert` in the three modes of `deliver`. A size is a length and what
is added to it where nobody decodes HTML: cleaning a text writes `'`, `"`, `&`, `<` and
`>` as entities, which count in full in the plain modes. A call may also fail for a
reason of its own; what follows a flood or a 403 is left to `Delivery`.
**Truncation** cuts a text of whole UTF-8 characters, a byte being the start or
the continuation of one; the loop downwards is the greatest place to cut.
**Consumer** has the stream as queue and process see it. Its error passes
through the variable `err` of `main`, which `Assign` sets at any time to any
value: `main` assigns it while it goes on starting, and so does the handler of
each chat_member update.

Code not in the repository (the hub, Telegram, the queue, the usage, interests
and publishing services) is modelled from the way it is used, and marked
external in the map.

Definitions called *Mutant of ...* are wrong variants of the definition that
follows. Nothing uses them; each shows, put in place of the right one, that a
property can fail.

## Checks

All runs take from one second to three minutes. Deadlock is not checked where
everything is done at some point (a feed acknowledged, a bound reached).

| Run | Instance | What it shows |
|---|---|---|
| `Delivery` | 4 events in batches of up to 2, the third refused, the fourth undecodable, 2 overlapping calls, 2 faults of three kinds (a failing unsubscription is left to `DeliveryLive`), up to 3 goroutines | `NoLoss`, `InOrder`, `DuplicatesBounded`, `CallsSound`; `ImplementsFeed` |
| `DeliveryLive` | 2 events, the second refused, 2 calls, 1 fault of four kinds, registered in the form tried last | `Progress`, `FloodStopsStream`, `WarnedForAReason` |
| `Paid` | 2 channels, 2 subjects sharing one of them, 2 handlers, 3 joins or leaves, 1 failure of four kinds | `PaidIsGranted`, `UnpaidIsReset`, `ToldIsTrue` (undisturbed), `OneChannel`, `Settles` (always) |
| `Stream` | 2 users, one linked, and a link without a user id; 2 overlapping commands, 1 delivery of 1 event, 1 goroutine, deliveries to the other URLs, 1 timeout, crash or failing call, a user who blocks and unblocks the bot | `RepliesAddUp`, `StopErrorMeansUnlinked` |
| `Publishing` | 3 posts, 2 replies, limit 3, 3 retries, 4 failures | `SuccessMeansAccepted`, `CopiesBounded`, `GivenUpForAReason` |
| `Consumer` | 4 events, batches of up to 2, 3 failures | `ConsumedBounded`, `NoPanicLoop`, `ImplementsFeed`, `AllAcknowledged` |
| `Listing` | 4 interests, pages of 2, 2 changes, followers of 1 and 6 digits, an error at any page | `NothingSkipped`, `NothingRepeated`, `PagingEnds` |
| `Messages` | all kinds and six sets of fields, lengths at and around the limits, with and without entities | `TextSurvives`, `SameKind`, `SkippedForLength` |
| `Truncation` | all texts of up to 10 bytes, cut to 7 | `WithinLimit`, `CutBetweenCharacters` |
| `Dialogue` | 2 interests, one of them another client's with either of two condition trees, 9 texts of reply, up to 3 items on the screen | `UnderstoodByItself`, `FollowedWhenNamed`; `ReadIsStored`, `MadeAsMeant` |
| `SubscriptionsRelink` | 1 command, already linked | `ConflictIsRelinked` is violated |
| `PublishingReply` | 1 reply, 1 failure | `PublishedMeansAccepted` is violated |

Why the bounds are enough. The delivery's hazards need two calls which overlap
on a batch that can fail at its first, second or no event, and an event behind
it: two calls, batches of two and four events have all of these, and the proofs
cover the rest. Two faults let a lost answer be followed by a crash. Paid limits
need two channels to conflict, two handlers to overlap, and a third change to
take back a membership a handler has read. In `Stream` two commands, of
one user or two, can overlap with each other and with a delivery, a `Start` can come
after the delivery has found the bot blocked, and the goroutine of a flood can remove
what a command has just found. Only floods in the raw mode start one goroutine alone;
the three of a flood in the HTML mode are in `Delivery`, and the theorems about
`Stream` hold for any number. In `Messages` 998 characters
just fit a caption with the footer of the HTML mode, and 3796 a text with the footer of
the plain modes, unless there are entities; 4096 exceed every limit. Each operator,
logic and kind of condition occurs in one tree three levels deep, and the
keywords have the lengths next to both limits. The lists need a second page and a
third (four ids, pages of two), and six digits is the longest number of
followers that fits the callback data. `MaxFlood`, `MaxFaults`, `MaxChanges`,
`MaxCommands`, `MaxTries` and `MaxScreen` bound counters only.

Symmetry of the requests is used in `Delivery` and of the commands in `Stream`,
which have no liveness property. `Stream` states none: TLC does not finish it
with liveness in useful time, the commands end by themselves, and the progress
of the delivery does not depend on them (`DeliveryLive`).

### Fairness

- `Delivery`: started calls and goroutines run to their end (Go schedules them
  and every call of the client returns), and the hub posts again. Blocking,
  timeouts and crashes are not forced, nor is Telegram forced to accept
  anything. A goroutine waiting out a flood is allowed to take any time.
- `PaidLimits`: updates are handled and handlers end. The user is free.
- `Consumer`: the queue goes on, the process runs and is restarted after a
  panic (its deployment does that). Faults are finite in number, not forced, and
  neither is what other goroutines assign.
- `Listing`: `PagingEnds` is about a user who keeps pressing the button.

## Proofs

Every safety invariant and every action property of the passing runs is proved for
all values of the constants, under the assumptions the modules state on them. Seven
theorems have a hypothesis more, named with them below: `NobodyInTwo`, `CascadeEnds`,
`AllIsShown`, `ShownOnce`, `AvailableAreListed`, `FollowedAreListed` and
`OnlyLengthIsSkipped`. Where the code does not keep what a text or a comment says
(Divergences), a theorem says what it keeps instead.

**DeliveryProofs** holds for every number of events, batch size, set of requests,
form, faults and bound (`DeliveryAssumption`: the counts are naturals, there is at
least one event, `None` is no request, the posted form is linked at first).

- `Invariance`: `Spec => []Inv`, with `Inv` the conjunction of `TypeOK`,
  `NoLoss`, `InOrder` and `CallsSound`. `NoLoss` is not inductive as it
  stands: that `Respond` may advance the cursor by `ack[r]` rests on
  `CallsSound`, which says that all that precedes a call's count is handled and
  that the call the hub waits for began at the hub's cursor. Overlapping calls
  do not spoil it, because the handled events only grow. There is one lemma per
  action. `TypeCorrect`, `NothingLost`, `FirstInOrder`, `CountsSound`: its parts.
- `PostedOnce` (`DuplicatesBounded`): that an event was posted at most once more
  than there were faults says nothing about posts still to come. `Tally` counts
  these too: the call the hub waits for, or a later one, is to post each event
  beyond its place (`Ahead`), and so is each call the hub has given up
  (`Stale`). A call becomes stale by a `Timeout`, which is a fault, so the sum
  never exceeds `1 + faults`.
- `WarningIsTrue` (`WarnedForAReason`), from `WarnSound`: a goroutine of
  `handleFloodError` past its first step has found the first URL removed, and
  one past its second step the other too, unless a call failed.
- `Refinement`: `Spec => F!Spec`. `SendOk` and a skip map to `Handle`, `Respond`
  to `Ack`, and the unsubscriptions to `Close`; everything else stutters.

**StreamProofs** holds for any number of commands, requests and events
(`StreamAssumption`, which is `DeliveryAssumption`).

- `StreamTypeCorrect`: steps of the delivery, which change the table of callbacks
  under a command, keep the types of the commands.
- `RepliesAccount` (`RepliesAddUp`): between the change a command makes and its reply
  the two differ. `AddsUp` puts the commands about to reply into the account,
  which is then balanced in every state.
- `StopErrorIsTrue` (`StopErrorMeansUnlinked`), from `Lookups`: what an undisturbed
  `Stop` has found out of the table is still so, because every step of another
  command and every removal ends `alone`. It is about the link of the user who stops
  and the one without a user id: the links of others are looked up by nobody
  (`AnyUserStops` below).
- `LinkedMeansRegistered` and `StoppedRemovesOne`, from `Owned`: a command which runs
  alone has, up to its own change, the table it began with. So "Subscribed" means that
  the URL of this user was added to it, and "Unsubscribed" that exactly one was taken
  away: the user's, or else the one without an id; what others linked stays. A `Start`
  by a user who has linked the chat can only end in "Unexpected failure".
- `CommandsKeepDelivery`: the composition has `NoLoss`, `InOrder` and
  `DuplicatesBounded` of `Delivery`. A command is no step of `Delivery` (it may link
  the chat again), but leaves alone what the invariants of `DeliveryProofs` are
  about; all other steps are steps of it, and its lemmas are used as they are.

**PaidProofs** holds for any channels, subjects, handlers and numbers of changes
and failures (`PaidAssumption`: there are finitely many channels and at least one
subject, and a channel raises the limit above the default).

- `TypeCorrect` needs `Found`: a channel found, or about to be used, is one of the
  current subject, or else it has no limit.
- `NobodyInTwo` (`OneChannel`): overlapping handlers may each miss a membership, so
  no handler is known to find both. `Separated` says that for each two channels
  the user is in, an update is still to be taken or some handler will find both:
  the handler of whichever was joined last has not asked for either before the
  user was in both. Its hypothesis `DistinctLimits` says that the channels of one
  subject have different limits. The configuration is free to break it: `chanByLimit`
  is keyed by the limit (`paid.go:146`), so of two channels with one limit only
  one is kept, and the user stays in both.
- `PaidGranted`, `UnpaidReset`, `ToldTrue` (`PaidIsGranted`, `UnpaidIsReset`,
  `ToldIsTrue`) follow from `SoleInv`, about handlers which do not overlap and whose
  calls do not fail: one runs at a time (`Alone`), what it has found is true
  (`Truth`), a limit which is not right yet will be set by it (`Granted`, `Reset`),
  and of what it has set it will tell (`Told`). That a best channel exists is
  `MaxExists`, by the well-foundedness of the naturals.
- `BansAreLifted`: who is banned is about to be let in by a handler (`Lifted`),
  unless a question (which ends the process), a ban or the lifting of one failed.
  `Settles` says so of the state the system settles in.
- `CascadeEnds`, for finitely many handlers: there is an end to the updates which
  removing the user causes, whichever way handlers overlap. `ToDo` lists what is
  left: failures and changes the bounds allow, memberships, channels a handler
  treats although the user has left them (each may ban once more), bans to lift,
  updates, then the places in the loops. Each step makes one of these finite sets
  smaller and none before it greater. What `Settles` says besides, that the steps
  are taken, is the fairness.

**ListingProofs** holds for any interests, numbers of followers, pages and changes
(`ListingAssumption`: an id leaves room in the callback data for a digit at
least).

- `TypeCorrect`: the number the callback data brings back is one, however many of
  its digits are cut off.
- `AllIsShown`, `ShownOnce` (`NothingSkipped`, `NothingRepeated`), from `Tracked`:
  until the end the cursor separates the interests which were shown from those
  which were not, and at the end all were. It rests on `PageFacts`: what lies
  beyond the last interest of a page is what was left without the page. A list which
  an error ended (`ShowError`) has no such end: of it `ShownOnce` and `OwnIsShown` say
  that nothing was shown twice, and no more is true (`LastPageIsLast` below).
- Their hypothesis `DataFits` says that no number of followers is cut off: with ids
  of 36 bytes it may have six digits. Without it the theorems are false
  (`AllAvailableListed` below). `OwnIsShown` needs none: own interests and those
  followed in the chat are continued by the id alone.
- `PagesAdvance`: each step to the next page is the last one or leaves just one page
  less of the same list to show. It does not need `DataFits`: the first page of
  public interests whose number is cut off continues with own ones, and a cursor
  which got beyond it stays short enough (`Fitting`), the numbers being sorted
  downwards. `PagingEnds` adds that the user goes on.
- `AvailableAreListed` (`DataFits`) and `FollowedAreListed` (no other chat has an id
  which begins with that of this one, `Elsewhere = {}`): what the code has of
  `AllAvailableListed` and `OnlyThisChat`, unless an error ended the list. So of the
  lists which come to their end each of these divergences has that one cause.

**ConversionProofs** holds for texts of any length. `TextComesBack` and `KindComesBack`
(`TextSurvives`, `SameKind`) are about messages of Telegram in whichever mode gets
through. `OnlyLengthIsSkipped` (`SkippedForLength`) is about events whose calls do not
fail for reasons of their own, which make `deliver` skip any event: these are skipped
only when they have the id of a Telegram message, so that they are not cut, and with
their entities are too long. It has the hypothesis `FooterFits`: a text cut to
`fmtLenMaxBodyTxt` bytes, its tags and the footer fit into a message. The
code bounds all of these: the tags by their number and length, the footer by cutting
the address of the origin (`format.go:176-184`). `Inv` adds that what is skipped was
refused in the raw mode, after the others, or its call failed. `CutsBetweenCharacters` and
`StaysWithinLimit` hold for every text of whole characters and every limit of at least
seven bytes (`TruncationAssumption`). They rest on `GreatestStart`: of four bytes in a
row one starts a character, so the loop ends within its first four steps.

**DialogueProofs** holds for any interests, however deep their conditions, any texts
of users and any number of items on the screen (`InterestsAssumption`: the conditions
of other clients are ones the JSON can have). `UnderstandsItself`
(`UnderstoodByItself`) and `NamedByUser` (`FollowedWhenNamed`) are not inductive: what
a press or a reply comes to depends on the words of an item the bot may have sent
long ago. `Written` lists all the items there can be, with the number of their words
and the ids of interests in them.

- `ConditionsComeBack`: of every condition the JSON can have, the bot reads one which
  selects the same messages, or an error if and only if a part is of an unknown kind,
  and would write back what it has read. That the walk down a tree misses no part and
  makes up none is `ThroughoutAll`. There is no induction over trees; that the
  function which walks exists is seen from the places below each place, and what it
  returns from a shortest and from a longest place it gets wrong.
- `ReadsWhatIsStored`, `MakesWhatIsMeant` (`ReadIsStored`, `MadeAsMeant`), from `Kept`:
  the service has only conditions the JSON can have, and of the bot's only a text of
  3 to 256 bytes under a name. `Makes` says it of each step.

**ConsumerProofs** holds for every number of events and failures and every batch
size (`ConsumerAssumption`).

- `Invariance`: `Spec => []Inv`. `OneBatch` says that a batch is in one place at
  a time, `BatchAtCursor` that it follows the cursor, and `AcksSound` that what
  is acknowledged or about to be is consumed, with all before it. Two parts keep
  accounts: in `RepetitionsPaid` the failure which causes a repetition may come
  before the batch is consumed or after, and in `PanicsPaid` it always comes
  before the panic.
- `Refinement`: `Spec => F!Spec`. `Consume` maps to `Handle`, `TakeAck` to `Ack`,
  everything else stutters.
- `RepetitionsNeedFailures`, `PanicsNeedFailures`, `TypeCorrect`: its parts.

**PublishingProofs** holds for every set of messages, limit, number of attempts
and of lost answers (`PublishingAssumption`): `SuccessMeansAccepted`,
`CopiesBounded`, `GivenUpForAReason` and `TypeOK`. The invariant adds that a
message which is not acknowledged yet has at most one copy for each lost answer,
and that of an unaccepted post each attempt has failed for a reason: it is
refused, the limit is reached (which lasts), or one more answer is lost.
`RepliesAreTold` is about replies to the prompt, from `Answered`: their only attempt
decides what the user is told. The limit is reported when it is reached. "Message
published" of what is not accepted means that the service refused it or that an
answer failed; a reply is never published twice.

Model-checked only is liveness, which is beyond the prover: `Progress` and
`FloodStopsStream` of `Delivery`, `Settles` of `PaidLimits`, `AllAcknowledged` of
`Consumer` and `PagingEnds` of `Listing`. Of `Settles` and `PagingEnds` the part which
needs no fairness is proved: the state they end in, and that each step gets nearer
to it (`BansAreLifted`, `CascadeEnds`, `PagesAdvance`).

## Divergences

Two of them are runs, `SubscriptionsRelink` and `PublishingReply`:

- `service/subscriptions/start.go:86`: the branch which links a linked chat
  again waits for `chats.ErrAlreadyExists`; `Subscribe` returns `ErrConflict`.
  `LinkedMeansRegistered` proves what a `Start` of a linked chat comes to instead.
- `service/messages/publish.go:198`: every error but the limit is announced as
  "Message published". `RepliesAreTold` says when this is false.

The others are stated as properties no run lists, which the code does not have;
each has a configuration which shows the counterexample.

- `WarnedMeansStopped` (`DeliveryWarned.cfg`): the error of the second attempt
  to unsubscribe after a flood is ignored (`service/chats/handler.go:239`), and
  the user is told that the streaming has stopped.
- `HeadIsSkipped` (`DeliveryPoison.cfg`): an event which cannot be converted is
  not counted (`handler.go:173`), unlike one Telegram refuses; at the head of a
  feed it is posted for ever.
- `NeverAbandoned` (`ConsumerEnded.cfg`): the error of the consumer goes through
  the `err` of `main`, which every chat_member update overwrites (`main.go:363`);
  the goroutine may then end without the panic, and nobody consumes any more.
- `StoppedMeansUnlinked` (`SubscriptionsStop.cfg`): a chat registered under both
  URLs is still linked under the old one after "Unsubscribed" (`stop.go:21`);
  `StoppedRemovesOne` proves that there is no other case.
- `AnyUserStops` (`SubscriptionsGroup.cfg`): the list offers every user of a group
  the interests any of them linked, but `Stop` looks for the URL with the id of the
  user who stops (`stop.go:19`): another one gets an error, and the chat stays linked.
- `LastPageIsLast` (`ListingError.cfg`): `Search` does not look at the status of an
  answer (`api/http/interests/service.go:240`); an error in JSON is shown as a page
  without interests and without a button, and the rest is never shown.
- `AllAvailableListed` (`ListingAll.cfg`): with seven digits of followers the
  word `public` is cut off, and the next page is one of own interests
  (`list.go:148`).
- `OnlyThisChat` (`ListingChat.cfg`): the chat is looked up by a prefix of URLs,
  which chats with longer ids share (`list.go:199`).
- `PlainHasNoHtml` (`MessagesPlain.cfg`): the header keeps its markup in the
  modes declared to have none (`format.go:237`).
- `TelegramNeedsNoCut` (`MessagesCut.cfg`): a text close to the limit exceeds it
  with the footer, or with the entities cleaning makes, and is skipped
  (`format.go:77`).
- `IntervalIsTaken` (`DialogueInterval.cfg`): an error in JSON with an unchecked
  status is taken for an interest without an id
  (`api/http/interests/service.go:82`), and its prompt cannot be answered.
- `TwoArgumentsTaken` (`DialogueArguments.cfg`): "expected 1-3 arguments", but
  two are refused (`start.go:51`).

Three more are visible in a model and left as they are. A chat linked under both
URLs is told after a flood that streaming has stopped when one goroutine has
removed the first only (the exception in `WarnedForAReason`). A delivery which
found the bot blocked removes the callback of a user who has come back and
started the interest again (`handler.go:191`); the goroutines of a flood may do the same.
`RepliesAddUp` takes such removals out of its account, so it does not see them.
An interest with a part of an unknown kind cannot be read at all
(`interests/service.go:356`), so it is named by its id.

In `PaidLimits`, three properties are stated for undisturbed handlers because
overlapping ones do not have them: both change the limit and tell the user in
separate steps, so the last message may contradict the limit in force, and an
older look at the memberships may reset a limit just granted. A failed
`ChatMemberOf` is collected as an error and the role of the nil member is read
two lines below (`paid.go:145`): `AskFails` ends the process. A user banned by a
handler which is interrupted before `Unban`, whose `Unban` fails, or whose `Ban` was
carried out but not answered (`paid.go:102-105`), stays banned. A user who moves to a cheaper channel keeps the higher limit, which is
only ever raised (`paid.go:86`).

Any error of the raw mode but a flood counts the event (`handler.go:219-227`): a call
which fails three times for reasons that have nothing to do with the event loses it.
`Delivery` has this as a skip, `SkippedForLength` excludes it.

## Not modelled

- `Authenticate` checks a signature and a date and keeps no state; `ListChannels`
  pages through a map no code fills.
- Connection pools, logging decorators, donation messages, configuration: no
  behaviour to state a property about.
- `Confirm` and the checks of parameters in `DeliverMessages`, which only answer
  400.
- `Delete` of the interests client and the operations of the builder of
  conditions besides `AnyOfWords` and `BuildTextCondition`: nothing calls them.
- Wording, markup beyond its presence, and the bodies of answers, which
  `api/http/subscriptions` does not always close.

## Plan

Done, in order of importance: `Feed`, `Delivery` and its proofs, `PaidLimits`,
`Subscriptions` and its composition with `Delivery` in `Stream`, `Publishing` and
`Consumer` with their proofs, `Listing`, `Messages`, `Truncation` and its proofs,
`Dialogue` over `Interests` and `Conditions`. Then the proofs of what was only
model-checked: the rest of `Delivery`, and `Stream`, `PaidLimits`, `Listing`,
`Messages` and `Dialogue`, and of the conversions of conditions. Last, what holds
where the code departs from its texts, and why paging and the cascade of removals
end.

Next:

1. A refinement of `Dialogue`'s one-step `Start` and `Stop` by `Subscriptions`, which
   both model the same commands.
2. A connection module for the HTTP clients: bodies which are not closed and
   the connections they hold.
