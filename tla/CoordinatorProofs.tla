--------------------------- MODULE CoordinatorProofs ---------------------------
(***************************************************************************)
(* Proofs about Coordinator, for any set of commands, any number of        *)
(* attempts and any number of moves, whether others turn the bolt or not.  *)
(***************************************************************************)
EXTENDS Coordinator, TLAPS

\* A call that reads on or returns has a sample, and one that is not linked has none.
SamplesAreHeld ==
    \A c \in Callers :
       /\ calls[c].at \in {"battery", "door", "done"} => calls[c].got # NoSample
       /\ calls[c].at \in {"idle", "apart"} => calls[c].got = NoSample

\* A sample of the call that has the link is no older than what is shown, and than any
\* other call's sample; one whose link is gone is no older than what was shown then.
SamplesInOrder ==
    /\ data # NoData => data.sample.at <= moves
    /\ \A c \in Callers : calls[c].got # NoSample =>
          /\ calls[c].got.at <= moves
          /\ link # c => calls[c].shown <= calls[c].got.at
          /\ link = c =>
                /\ DateShown <= calls[c].got.at
                /\ \A d \in Callers :
                      calls[d].got # NoSample => calls[d].got.at <= calls[c].got.at

\* Before the first good poll there is nothing to carry over.
NothingCarried == data = NoData => lastRead = NothingRead

\* What is shown, available or not, has the last good poll's battery and door.
ExtrasCarried == data # NoData => data.extras = Decoded(lastRead)

\* An order that is under way has its move left to make, if it is one.
ThrowHasRoom == throw \notin {"none", bolt} => moves < MaxMoves

CoordinatorInv ==
    CoordinatorTypeOK /\ SamplesAreHeld /\ SamplesInOrder /\ ThrowHasRoom
    /\ NothingCarried /\ ExtrasCarried

-------------------------------------------------------------------------------
LEMMA IdleCall ==
    Idle \in CallStates /\ Idle.at = "idle" /\ Idle.got = NoSample
  <1>1. 0 \in 0 .. Attempts - 1 /\ 0 \in 0 .. MaxMoves
    BY CoordinatorAssumption
  <1>2. NothingRead \in Readings
    BY DEF NothingRead, Readings
  <1> QED
    BY <1>1, <1>2 DEF Idle, CallStates, Positions

\* Dates are numbers.
LEMMA DatesAreNumbers ==
    ASSUME CoordinatorTypeOK
    PROVE  /\ moves \in Nat /\ DateShown \in 0 .. MaxMoves
           /\ \A c \in Callers : calls[c].shown \in Nat
           /\ \A c \in Callers : calls[c].got # NoSample =>
                 calls[c].got \in Samples /\ calls[c].got.at \in Nat
  BY CoordinatorAssumption DEF CoordinatorTypeOK, CallStates, Samples, DateShown, LockData

\* A new sample is one, and not the value for none.
LEMMA SampleIsOne ==
    CoordinatorTypeOK => Sample \in Samples /\ Sample # NoSample /\ Sample.at = moves
  BY NothingAssumption DEF CoordinatorTypeOK, Sample, Samples

\* The first sample is taken after the coordinator was made.
LEMMA CoordinatorInitInv == CoordinatorInit => CoordinatorInv
  <1> SUFFICES ASSUME CoordinatorInit PROVE CoordinatorInv
    OBVIOUS
  <1>1. Idle \in CallStates /\ Idle.at = "idle" /\ Idle.got = NoSample
    BY IdleCall
  <1>2. \A c \in Callers : calls[c] = Idle /\ c # Nobody
    BY CoordinatorAssumption DEF CoordinatorInit, Callers, Nobody
  <1>3. CoordinatorTypeOK
    <2>1. moves \in 0 .. MaxMoves
      BY CoordinatorAssumption DEF CoordinatorInit
    <2>2. calls \in [Callers -> CallStates]
      BY <1>1 DEF CoordinatorInit
    <2>3. \A c \in Callers : link = c => calls[c].at \notin {"idle", "apart"}
      BY <1>2 DEF CoordinatorInit
    <2> QED
      BY <2>1, <2>2, <2>3 DEF CoordinatorInit, CoordinatorTypeOK, Readings, NothingRead
  <1>4. SamplesAreHeld
    BY <1>1, <1>2 DEF SamplesAreHeld
  <1>5. SamplesInOrder
    BY <1>1, <1>2 DEF CoordinatorInit, SamplesInOrder
  <1> QED
    BY <1>3, <1>4, <1>5
       DEF CoordinatorInit, CoordinatorInv, ThrowHasRoom, NothingCarried, ExtrasCarried

-------------------------------------------------------------------------------
\* Only the call may get or lose the link.
Links(c) ==
    /\ link' \in Callers \cup {Nobody}
    /\ \A d \in Callers \ {c} : link' = d <=> link = d

\* Where the sample of a call's new state comes from: it is taken now, or was there
\* and the call has kept its link or just lost it.
Keeps(call, c) ==
    \/ call.got = NoSample
    \/ call.got = Sample /\ link' = c
    \/ /\ call.got = calls[c].got
       /\ \/ call.shown = calls[c].shown /\ (link' = c <=> link = c)
          \/ call.shown = DateShown /\ link = c /\ link' # c

\* What the new state of one call must be, as long as nothing new is shown.
Fits(call, c) ==
    /\ call \in CallStates
    /\ Links(c)
    /\ link' = c => call.at \notin {"idle", "apart"}
    /\ call.at \in {"battery", "door", "done"} => call.got # NoSample
    /\ call.at \in {"idle", "apart"} => call.got = NoSample
    /\ Keeps(call, c)

\* A call's new state that fits leaves samples and what is shown in order.
LEMMA OneCall ==
    ASSUME CoordinatorInv, NEW c \in Callers, NEW call, Fits(call, c),
           calls' = [calls EXCEPT ![c] = call], UNCHANGED <<bolt, moves, shownVars>>,
           \/ throw' = throw
           \/ throw' \in Positions /\ (moves < MaxMoves \/ bolt = throw')
    PROVE  CoordinatorInv'
  <1>1. /\ calls' \in [Callers -> CallStates]
        /\ calls'[c] = call
        /\ \A d \in Callers \ {c} : calls'[d] = calls[d]
    BY DEF CoordinatorInv, CoordinatorTypeOK, Fits
  <1>2. CoordinatorTypeOK'
    BY <1>1 DEF CoordinatorInv, CoordinatorTypeOK, Fits, Links, shownVars
  <1>3. SamplesAreHeld'
    BY <1>1 DEF CoordinatorInv, SamplesAreHeld, Fits
  <1>4. SamplesInOrder'
    <2>1. /\ moves \in Nat /\ DateShown \in Nat /\ DateShown <= moves
          /\ \A d \in Callers : calls[d].got # NoSample => calls[d].got.at \in Nat
      BY DatesAreNumbers, CoordinatorAssumption
         DEF CoordinatorInv, SamplesInOrder, DateShown
    <2>2. /\ moves' = moves /\ DateShown' = DateShown
          /\ \A d \in Callers \ {c} : link' = d <=> link = d
      BY DEF shownVars, DateShown, Fits, Links
    <2>3. data' # NoData => data'.sample.at <= moves'
      BY <2>2 DEF CoordinatorInv, SamplesInOrder, shownVars
    <2>4. call.got # NoSample =>
            /\ call.got.at <= moves
            /\ link' # c => call.shown <= call.got.at
            /\ link' = c => /\ DateShown <= call.got.at
                            /\ \A d \in Callers : calls[d].got # NoSample => calls[d].got.at <= call.got.at
      <3>1. CASE call.got = Sample /\ link' = c
        BY <2>1, <3>1, SampleIsOne DEF CoordinatorInv, SamplesInOrder
      <3>2. CASE call.got = calls[c].got /\ call.shown = calls[c].shown /\ (link' = c <=> link = c)
        BY <3>2 DEF CoordinatorInv, SamplesInOrder
      <3>3. CASE call.got = calls[c].got /\ call.shown = DateShown /\ link = c /\ link' # c
        BY <3>3 DEF CoordinatorInv, SamplesInOrder
      <3> QED
        BY <3>1, <3>2, <3>3 DEF Fits, Keeps
    <2>5. ASSUME NEW d \in Callers, calls'[d].got # NoSample
          PROVE  /\ calls'[d].got.at <= moves'
                 /\ link' # d => calls'[d].shown <= calls'[d].got.at
                 /\ link' = d => DateShown' <= calls'[d].got.at
      BY <1>1, <2>2, <2>4, <2>5 DEF CoordinatorInv, SamplesInOrder
    <2>6. ASSUME NEW d \in Callers, calls'[d].got # NoSample, link' = d,
                 NEW e \in Callers, calls'[e].got # NoSample
          PROVE  calls'[e].got.at <= calls'[d].got.at
      <3>1. CASE d = c /\ e = c
        BY <1>1, <2>1, <2>4, <2>6, <3>1, SampleIsOne DEF Fits, Keeps, CoordinatorInv
      <3>2. CASE d = c /\ e # c
        BY <1>1, <2>4, <2>6, <3>2
      <3>3. CASE d # c /\ e # c
        BY <1>1, <2>2, <2>6, <3>3 DEF CoordinatorInv, SamplesInOrder
      <3>4. CASE d # c /\ e = c
        <4>1. link' # c /\ link # c
          BY <2>2, <2>6, <3>4
        <4>2. calls[c].got = call.got
          BY <1>1, <2>6, <3>4, <4>1 DEF Fits, Keeps
        <4> QED
          BY <1>1, <2>2, <2>6, <3>4, <4>2 DEF CoordinatorInv, SamplesInOrder
      <3> QED
        BY <3>1, <3>2, <3>3, <3>4
    <2> QED
      BY <2>3, <2>5, <2>6 DEF SamplesInOrder
  <1>5. ThrowHasRoom' /\ NothingCarried' /\ ExtrasCarried'
    BY DEF CoordinatorInv, ThrowHasRoom, NothingCarried, ExtrasCarried, shownVars
  <1> QED
    BY <1>2, <1>3, <1>4, <1>5 DEF CoordinatorInv

\* The bolt may turn, and the command that has the link may get the newest sample there is.
LEMMA BoltInv ==
    ASSUME CoordinatorInv, Turn \/ OthersTurn
    PROVE  CoordinatorInv'
  <1>1. /\ moves' \in 0 .. MaxMoves /\ moves' >= moves
        /\ throw' \notin {"none", bolt'} => moves' < MaxMoves
    BY CoordinatorAssumption DEF Turn, OthersTurn, CoordinatorInv, CoordinatorTypeOK, ThrowHasRoom
  <1>2. bolt' \in Positions /\ throw' \in Positions \cup {"none"}
    BY DEF Turn, OthersTurn, CoordinatorInv, CoordinatorTypeOK
  <1>3. UNCHANGED <<link, polled, data, success, lastRead>> /\ DateShown' = DateShown
    BY DEF Turn, OthersTurn, shownVars, DateShown
  <1>4. /\ moves \in Nat /\ DateShown \in Nat /\ DateShown <= moves
        /\ \A d \in Callers : calls[d].got # NoSample => calls[d].got.at \in Nat
    BY DatesAreNumbers, CoordinatorAssumption DEF CoordinatorInv, SamplesInOrder, DateShown
  <1>5. ThrowHasRoom' /\ NothingCarried' /\ ExtrasCarried'
    BY <1>1, <1>3 DEF CoordinatorInv, ThrowHasRoom, NothingCarried, ExtrasCarried
  <1>6. data' # NoData => data'.sample.at <= moves'
    BY <1>1, <1>3, <1>4 DEF CoordinatorInv, SamplesInOrder, DateShown
  <1>7. CASE calls' = calls
    <2>1. CoordinatorTypeOK'
      BY <1>1, <1>2, <1>3, <1>7 DEF CoordinatorInv, CoordinatorTypeOK
    <2>2. SamplesAreHeld'
      BY <1>7 DEF CoordinatorInv, SamplesAreHeld
    <2>3. SamplesInOrder'
      BY <1>1, <1>3, <1>4, <1>6, <1>7 DEF CoordinatorInv, SamplesInOrder
    <2> QED
      BY <1>5, <2>1, <2>2, <2>3 DEF CoordinatorInv
  <1>8. CASE /\ link \in Commands
             /\ calls[link].at \in {"linked", "ordered"}
             /\ calls' = [calls EXCEPT ![link].got = [bolt |-> bolt', at |-> moves']]
    <2> DEFINE new == [bolt |-> bolt', at |-> moves']
    <2>1. new \in Samples /\ new # NoSample /\ new.at = moves'
      BY <1>1, <1>2, NothingAssumption DEF Samples
    <2>2. /\ link \in Callers /\ calls[link] \in CallStates
          /\ calls'[link] = [calls[link] EXCEPT !.got = new]
          /\ \A d \in Callers \ {link} : calls'[d] = calls[d]
      BY <1>8 DEF Callers, CoordinatorInv, CoordinatorTypeOK
    <2>3. calls'[link].got = new /\ calls'[link].at = calls[link].at
      BY <2>2 DEF CallStates
    <2>4. calls' \in [Callers -> CallStates]
      <3>1. [calls[link] EXCEPT !.got = new] \in CallStates
        BY <2>1, <2>2 DEF CallStates
      <3> QED
        BY <1>8, <2>2, <3>1 DEF CoordinatorInv, CoordinatorTypeOK
    <2>5. CoordinatorTypeOK'
      BY <1>1, <1>2, <1>3, <2>2, <2>3, <2>4 DEF CoordinatorInv, CoordinatorTypeOK
    <2>6. SamplesAreHeld'
      BY <1>8, <2>1, <2>2, <2>3 DEF CoordinatorInv, SamplesAreHeld
    <2>7. \A d \in Callers : calls'[d].got # NoSample => calls'[d].got.at <= moves'
      <3>1. ASSUME NEW d \in Callers \ {link}, calls[d].got # NoSample
            PROVE  calls[d].got.at <= moves'
        BY <1>1, <1>4, <3>1 DEF CoordinatorInv, SamplesInOrder
      <3>2. calls'[link].got.at <= moves'
        BY <1>1, <2>1, <2>3, CoordinatorAssumption
      <3> QED
        BY <2>2, <3>1, <3>2
    <2>8. SamplesInOrder'
      <3>1. ASSUME NEW d \in Callers, calls'[d].got # NoSample, link' # d
            PROVE  calls'[d].shown <= calls'[d].got.at
        BY <1>3, <2>2, <3>1 DEF CoordinatorInv, SamplesInOrder
      <3>2. DateShown' <= new.at
        BY <1>1, <1>3, <1>4, <2>1
      <3>3. link' = link
        BY <1>3
      <3>4. \A d \in Callers : link' = d => calls'[d].got.at = moves' /\ DateShown' <= calls'[d].got.at
        BY <2>1, <2>3, <3>2, <3>3
      <3> HIDE DEF new
      <3> QED
        BY <1>6, <2>7, <3>1, <3>4 DEF SamplesInOrder
    <2> QED
      BY <1>5, <2>5, <2>6, <2>8 DEF CoordinatorInv
  <1>9. calls' = calls
        \/ /\ link \in Commands
           /\ calls[link].at \in {"linked", "ordered"}
           /\ calls' = [calls EXCEPT ![link].got = [bolt |-> bolt', at |-> moves']]
    BY DEF Turn, OthersTurn, Notified
  <1> QED
    BY <1>7, <1>8, <1>9

\* A call begins, connects, orders, reads, loses its link or tries again.
LEMMA CallInv ==
    ASSUME CoordinatorInv, NEW c \in Callers,
           \/ c = "poll" /\ (PollStarts \/ ReadState \/ ReadBattery \/ ReadDoor)
           \/ \E target \in Positions : CommandStarts(c, target)
           \/ LinkLost /\ link = c
           \/ Connect(c) \/ Order(c) \/ FallsBack(c) \/ AttemptFails(c)
    PROVE  CoordinatorInv'
  <1> DEFINE call == calls'[c]
  <1>1. /\ c # Nobody /\ calls[c] \in CallStates /\ calls \in [Callers -> CallStates]
        /\ link \in Callers \cup {Nobody}
        /\ link = c => calls[c].at \notin {"idle", "apart"}
        /\ calls[c].at \in {"battery", "door", "done"} => calls[c].got # NoSample
        /\ calls[c].at \in {"idle", "apart"} => calls[c].got = NoSample
    BY CoordinatorAssumption
       DEF Callers, Nobody, CoordinatorInv, CoordinatorTypeOK, SamplesAreHeld
  <1>2. Sample \in Samples /\ Sample # NoSample
    BY SampleIsOne DEF CoordinatorInv
  <1>3. CASE c = "poll" /\ PollStarts
    <2>1. calls' = [calls EXCEPT ![c] = call] /\ call = [calls[c] EXCEPT !.at = "apart"]
      BY <1>1, <1>3 DEF PollStarts
    <2>2. Fits(call, c)
      BY <1>1, <1>3, <2>1 DEF PollStarts, Fits, Links, Keeps, CallStates
    <2> QED
      BY <1>3, <2>1, <2>2, OneCall DEF PollStarts, boltVars
  <1>4. ASSUME NEW target \in Positions, CommandStarts(c, target) PROVE CoordinatorInv'
    <2>1. /\ calls' = [calls EXCEPT ![c] = call]
          /\ call = [calls[c] EXCEPT !.at = "apart", !.target = target]
      BY <1>1, <1>4 DEF CommandStarts
    <2>2. Fits(call, c)
      BY <1>1, <1>4, <2>1 DEF CommandStarts, Fits, Links, Keeps, CallStates
    <2> QED
      BY <1>4, <2>1, <2>2, OneCall DEF CommandStarts, boltVars
  <1>5. CASE Connect(c)
    <2>1. calls' = [calls EXCEPT ![c] = call] /\ call = [calls[c] EXCEPT !.at = "linked"]
      BY <1>1, <1>5 DEF Connect
    <2>2. Fits(call, c)
      BY <1>1, <1>5, <2>1, CoordinatorAssumption
         DEF Connect, Fits, Links, Keeps, CallStates, Callers, Nobody
    <2> QED
      BY <1>5, <2>1, <2>2, OneCall DEF Connect, boltVars
  <1>6. CASE LinkLost /\ link = c
    <2>1. Links(c) /\ link' # c
      BY <1>1, <1>6, CoordinatorAssumption DEF LinkLost, Links, Callers, Nobody
    <2>2. CASE calls[c].got = NoSample
      <3>1. calls' = [calls EXCEPT ![c] = call] /\ call = calls[c]
        BY <1>1, <1>6, <2>2 DEF LinkLost
      <3>2. Fits(call, c)
        BY <1>1, <2>1, <2>2, <3>1 DEF Fits, Keeps
      <3> QED
        BY <1>6, <3>1, <3>2, OneCall DEF LinkLost, boltVars
    <2>3. CASE calls[c].got # NoSample
      <3>1. calls' = [calls EXCEPT ![c] = call] /\ call = [calls[c] EXCEPT !.shown = DateShown]
        BY <1>1, <1>6, <2>3 DEF LinkLost
      <3>2. DateShown \in 0 .. MaxMoves
        BY DatesAreNumbers DEF CoordinatorInv
      <3>3. call \in CallStates
        BY <1>1, <3>1, <3>2 DEF CallStates
      <3>4. Fits(call, c)
        BY <1>1, <1>6, <2>1, <3>1, <3>3 DEF Fits, Keeps, CallStates
      <3> QED
        BY <1>6, <3>1, <3>4, OneCall DEF LinkLost, boltVars
    <2> QED
      BY <2>2, <2>3
  <1>7. CASE c = "poll" /\ ReadState
    <2>1. /\ calls' = [calls EXCEPT ![c] = call]
          /\ call = [calls[c] EXCEPT !.at = "battery", !.got = Sample]
      BY <1>1, <1>7 DEF ReadState
    <2>2. Fits(call, c)
      BY <1>1, <1>2, <1>7, <2>1 DEF ReadState, Fits, Links, Keeps, CallStates
    <2> QED
      BY <1>7, <2>1, <2>2, OneCall DEF ReadState, boltVars
  <1>8. CASE c = "poll" /\ ReadBattery
    <2>1. PICK battery \in Levels \cup {"None"} :
             calls' = [calls EXCEPT ![c].at = "door", ![c].reading.battery = battery]
      BY <1>8 DEF ReadBattery
    <2>2. /\ calls' = [calls EXCEPT ![c] = call]
          /\ call = [calls[c] EXCEPT !.at = "door", !.reading.battery = battery]
      BY <1>1, <2>1
    <2>3. call \in CallStates
      <3> DEFINE new == [calls[c].reading EXCEPT !.battery = battery]
      <3>1. call = [calls[c] EXCEPT !.at = "door", !.reading = new]
        BY <1>1, <2>2 DEF CallStates
      <3>2. calls[c].reading \in Readings
        BY <1>1 DEF CallStates
      <3>3. new \in Readings
        BY <3>2 DEF Readings
      <3> HIDE DEF new
      <3> QED
        BY <1>1, <3>1, <3>3 DEF CallStates
    <2>4. Fits(call, c)
      BY <1>1, <1>8, <2>2, <2>3 DEF ReadBattery, Fits, Links, Keeps, CallStates
    <2> QED
      BY <1>8, <2>2, <2>4, OneCall DEF ReadBattery, boltVars
  <1>9. CASE c = "poll" /\ ReadDoor
    <2>1. PICK door \in {DOOR_OPEN, DOOR_CLOSED, DOOR_UNKNOWN} :
             calls' = [calls EXCEPT ![c].at = "done", ![c].reading.door = door]
      BY <1>9, CoordinatorAssumption DEF ReadDoor
    <2>2. /\ calls' = [calls EXCEPT ![c] = call]
          /\ call = [calls[c] EXCEPT !.at = "done", !.reading.door = door]
      BY <1>1, <2>1
    <2>3. call \in CallStates
      <3> DEFINE new == [calls[c].reading EXCEPT !.door = door]
      <3>1. call = [calls[c] EXCEPT !.at = "done", !.reading = new]
        BY <1>1, <2>2 DEF CallStates
      <3>2. calls[c].reading \in Readings
        BY <1>1 DEF CallStates
      <3>3. new \in Readings
        BY <3>2 DEF Readings
      <3> HIDE DEF new
      <3> QED
        BY <1>1, <3>1, <3>3 DEF CallStates
    <2>4. Fits(call, c)
      BY <1>1, <1>9, <2>2, <2>3 DEF ReadDoor, Fits, Links, Keeps, CallStates
    <2> QED
      BY <1>9, <2>2, <2>4, OneCall DEF ReadDoor, boltVars
  <1>10. CASE Order(c)
    <2>1. calls' = [calls EXCEPT ![c] = call] /\ call = [calls[c] EXCEPT !.at = "ordered"]
      BY <1>1, <1>10 DEF Order
    <2>2. Fits(call, c) /\ throw' \in Positions
      BY <1>1, <1>10, <2>1 DEF Order, Fits, Links, Keeps, CallStates
    <2>3. moves < MaxMoves \/ bolt = throw'
      BY <1>10 DEF Order
    <2> QED
      BY <1>10, <2>1, <2>2, <2>3, OneCall DEF Order
  <1>11. CASE FallsBack(c)
    <2>1. /\ calls' = [calls EXCEPT ![c] = call]
          /\ call = [calls[c] EXCEPT !.at = "done", !.got = Sample]
      BY <1>1, <1>11 DEF FallsBack
    <2>2. Fits(call, c)
      BY <1>1, <1>2, <1>11, <2>1 DEF FallsBack, Fits, Links, Keeps, CallStates
    <2> QED
      BY <1>11, <2>1, <2>2, OneCall DEF FallsBack, boltVars
  <1>12. CASE AttemptFails(c)
    <2>1. calls[c].tries \in 0 .. Attempts - 1 /\ calls[c].tries + 1 # Attempts
      BY <1>1, <1>12 DEF AttemptFails, LastTry, CallStates
    <2>2. /\ calls' = [calls EXCEPT ![c] = call]
          /\ call = [calls[c] EXCEPT !.at = "apart", !.tries = calls[c].tries + 1,
                                     !.got = NoSample, !.shown = 0]
      BY <1>1, <1>12 DEF AttemptFails, ForNextTry
    <2>3. call \in CallStates
      <3>1. calls[c].tries + 1 \in 0 .. Attempts - 1 /\ 0 \in 0 .. MaxMoves
        BY <2>1, CoordinatorAssumption
      <3> QED
        BY <1>1, <2>2, <3>1 DEF CallStates
    <2>4. Fits(call, c)
      BY <1>1, <1>12, <2>2, <2>3, CoordinatorAssumption
         DEF AttemptFails, Release, Fits, Links, Keeps, CallStates, Callers, Nobody
    <2> QED
      BY <1>12, <2>2, <2>4, OneCall DEF AttemptFails, boltVars
  <1> QED
    BY <1>3, <1>4, <1>5, <1>6, <1>7, <1>8, <1>9, <1>10, <1>11, <1>12

\* A call that ended has no link and no sample, and the others are as they were.
LEMMA Ended ==
    ASSUME CoordinatorInv, NEW c \in Callers, Ends(c)
    PROVE  /\ Fits(Idle, c) /\ link' # c
           /\ calls' = [calls EXCEPT ![c] = Idle]
           /\ calls'[c] = Idle
           /\ \A d \in Callers \ {c} : calls'[d] = calls[d]
  <1>1. Idle \in CallStates /\ Idle.got = NoSample /\ Idle.at = "idle"
    BY IdleCall
  <1>2. c # Nobody
    BY CoordinatorAssumption DEF Callers, Nobody
  <1>3. Fits(Idle, c) /\ link' # c
    BY <1>1, <1>2, CoordinatorAssumption
       DEF Ends, Release, Fits, Links, Keeps, Callers, Nobody, CoordinatorInv, CoordinatorTypeOK
  <1> QED
    BY <1>3 DEF Ends, CoordinatorInv, CoordinatorTypeOK

\* What calls that end leave of the samples' order, whatever is shown then, as long as it
\* is no older than the past and no newer than the sample of the call that has the link.
LEMMA EndedInOrder ==
    ASSUME CoordinatorInv, NEW c \in Callers, Ends(c), moves' = moves,
           data' # NoData => data'.sample.at <= moves,
           \A d \in Callers \ {c} :
              link = d /\ calls[d].got # NoSample => DateShown' <= calls[d].got.at
    PROVE  SamplesAreHeld' /\ SamplesInOrder'
  <1>1. /\ calls'[c] = Idle /\ Idle.at = "idle" /\ Idle.got = NoSample
        /\ \A d \in Callers \ {c} : calls'[d] = calls[d] /\ (link' = d <=> link = d)
    BY Ended, IdleCall DEF Fits, Links
  <1>2. SamplesAreHeld'
    BY <1>1 DEF CoordinatorInv, SamplesAreHeld
  <1>3. ASSUME NEW d \in Callers, calls'[d].got # NoSample
        PROVE  d # c /\ calls'[d] = calls[d] /\ (link' = d <=> link = d)
    BY <1>1, <1>3
  <1>4. SamplesInOrder'
    BY <1>3 DEF CoordinatorInv, SamplesInOrder
  <1> QED
    BY <1>2, <1>4

LEMMA FailInv ==
    ASSUME CoordinatorInv, PollFails \/ (\E c \in Commands : CommandFails(c))
    PROVE  CoordinatorInv'
  <1>1. PICK c \in Callers :
          /\ Ends(c)
          /\ UNCHANGED <<boltVars, data, lastRead>> /\ polled' \in BOOLEAN /\ success' \in BOOLEAN
    BY DEF PollFails, CommandFails, Callers, shownVars, CoordinatorInv, CoordinatorTypeOK
  <1>2. Fits(Idle, c) /\ link' # c /\ calls' = [calls EXCEPT ![c] = Idle]
    BY <1>1, Ended
  <1>3. CoordinatorTypeOK'
    BY <1>1, <1>2 DEF Fits, Links, CoordinatorInv, CoordinatorTypeOK, boltVars
  <1>4. DateShown' = DateShown
    BY <1>1 DEF DateShown
  <1>5. SamplesAreHeld' /\ SamplesInOrder'
    BY <1>1, <1>4, EndedInOrder DEF CoordinatorInv, SamplesInOrder, boltVars
  <1> QED
    BY <1>1, <1>3, <1>5 DEF CoordinatorInv, ThrowHasRoom, NothingCarried, ExtrasCarried, boltVars

\* What is read decodes to battery and door, and no reading to none.
LEMMA ReadingDecodes ==
    /\ \A reading \in Readings : Decoded(reading) \in Extras
    /\ Decoded(NothingRead) = NoExtras /\ NothingRead \in Readings
  BY DEF Readings, NothingRead, Decoded, DecodeDoor, Extras, NoExtras, DOOR_OPEN, DOOR_CLOSED, DOOR_UNKNOWN

\* The call returns a sample that takes back nothing that was on show while it had the link.
TakesNothingBack(c) ==
    /\ calls[c].at # "idle" /\ calls'[c].at = "idle"
    /\ data' # NoData
    /\ data'.sample.at >= (IF link = c THEN DateShown ELSE calls[c].shown)

LEMMA ReturnInv ==
    ASSUME CoordinatorInv, NEW c \in Callers, Ends(c), calls[c].got # NoSample,
           NEW reading \in Readings,
           data' = [sample |-> calls[c].got, extras |-> Decoded(reading)],
           lastRead' = reading, polled' \in BOOLEAN, success' \in BOOLEAN, UNCHANGED boltVars
    PROVE  CoordinatorInv' /\ TakesNothingBack(c)
  <1>1. /\ calls[c].got \in Samples /\ calls[c].got.at \in Nat /\ calls[c].got.at <= moves
        /\ link = c => DateShown <= calls[c].got.at
        /\ link # c => calls[c].shown <= calls[c].got.at
        /\ DateShown \in Nat /\ calls[c].shown \in Nat
    BY DatesAreNumbers, CoordinatorAssumption DEF CoordinatorInv, SamplesInOrder
  <1>2. data' \in LockData /\ data' # NoData /\ data'.sample = calls[c].got
    BY <1>1, ReadingDecodes, NothingAssumption DEF LockData
  <1>3. DateShown' = calls[c].got.at
    BY <1>2 DEF DateShown
  <1>4. /\ Fits(Idle, c) /\ link' # c
        /\ calls' = [calls EXCEPT ![c] = Idle] /\ calls'[c] = Idle
    BY Ended
  <1>5. CoordinatorTypeOK'
    BY <1>2, <1>4 DEF Fits, Links, boltVars, CoordinatorInv, CoordinatorTypeOK
  <1>6. SamplesAreHeld' /\ SamplesInOrder'
    <2>1. ASSUME NEW d \in Callers \ {c}, link = d, calls[d].got # NoSample
          PROVE  DateShown' <= calls[d].got.at
      BY <1>3, <2>1 DEF CoordinatorInv, SamplesInOrder
    <2> QED
      BY <1>1, <1>2, <2>1, EndedInOrder DEF boltVars
  <1>7. ThrowHasRoom' /\ NothingCarried' /\ ExtrasCarried'
    BY <1>2 DEF CoordinatorInv, ThrowHasRoom, NothingCarried, ExtrasCarried, boltVars
  <1>8. TakesNothingBack(c)
    BY <1>1, <1>2, <1>4, IdleCall DEF TakesNothingBack, Ends
  <1> QED
    BY <1>5, <1>6, <1>7, <1>8 DEF CoordinatorInv

\* Polls and commands that return.
LEMMA PollReturnsInv ==
    ASSUME CoordinatorInv, PollReturns
    PROVE  CoordinatorInv' /\ TakesNothingBack("poll")
  <1>1. "poll" \in Callers
    BY DEF Callers
  <1>2. calls["poll"].got # NoSample /\ calls["poll"].reading \in Readings
    BY <1>1 DEF PollReturns, CoordinatorInv, CoordinatorTypeOK, SamplesAreHeld, CallStates
  <1> QED
    BY <1>1, <1>2, ReturnInv DEF PollReturns

LEMMA CommandReturnsInv ==
    ASSUME CoordinatorInv, NEW c \in Commands, CommandReturns(c)
    PROVE  CoordinatorInv' /\ TakesNothingBack(c)
  <1>1. Carried(data) = Decoded(lastRead) /\ lastRead \in Readings
    BY ReadingDecodes DEF Carried, CoordinatorInv, CoordinatorTypeOK, NothingCarried, ExtrasCarried
  <1>2. success' \in BOOLEAN /\ polled' \in BOOLEAN
    BY DEF CommandReturns, CoordinatorInv, CoordinatorTypeOK
  <1> QED
    BY <1>1, <1>2, ReturnInv DEF CommandReturns, Callers

\* Everything else leaves on show what is shown.
LEMMA StepInv ==
    ASSUME CoordinatorInv, [CoordinatorNext]_cvars
    PROVE  CoordinatorInv' /\ (data' = data \/ \E c \in Callers : TakesNothingBack(c))
  <1>1. CASE Turn \/ OthersTurn
    BY <1>1, BoltInv DEF Turn, OthersTurn, shownVars
  <1>2. CASE LinkLost
    <2>1. link \in Callers
      BY <1>2 DEF LinkLost, CoordinatorInv, CoordinatorTypeOK
    <2> QED
      BY <1>2, <2>1, CallInv DEF LinkLost, shownVars
  <1>3. CASE PollStarts \/ ReadState \/ ReadBattery \/ ReadDoor \/ Connect("poll") \/ AttemptFails("poll")
    <2>1. "poll" \in Callers
      BY DEF Callers
    <2>2. CoordinatorInv'
      BY <1>3, <2>1, CallInv
    <2>3. UNCHANGED shownVars
      BY <1>3 DEF PollStarts, Connect, ReadState, ReadBattery, ReadDoor, AttemptFails
    <2> QED
      BY <2>2, <2>3 DEF shownVars
  <1>4. CASE PollFails
    BY <1>4, FailInv DEF PollFails
  <1>5. CASE PollReturns
    BY <1>5, PollReturnsInv DEF Callers
  <1>6. ASSUME NEW c \in Commands, Command(c)
        PROVE  CoordinatorInv' /\ (data' = data \/ \E d \in Callers : TakesNothingBack(d))
    <2>1. c \in Callers
      BY DEF Callers
    <2>2. CASE CommandFails(c)
      BY <2>2, FailInv DEF CommandFails, shownVars
    <2>3. CASE CommandReturns(c)
      BY <2>1, <2>3, CommandReturnsInv
    <2>4. CASE \/ \E target \in Positions : CommandStarts(c, target)
               \/ Connect(c) \/ Order(c) \/ FallsBack(c) \/ AttemptFails(c)
      <3>1. CoordinatorInv'
        BY <2>1, <2>4, CallInv
      <3>2. UNCHANGED shownVars
        BY <2>4 DEF CommandStarts, Connect, Order, FallsBack, AttemptFails
      <3> QED
        BY <3>1, <3>2 DEF shownVars
    <2> QED
      BY <1>6, <2>2, <2>3, <2>4 DEF Command
  <1>7. CASE UNCHANGED cvars
    BY <1>7 DEF cvars, boltVars, callVars, shownVars, CoordinatorInv, CoordinatorTypeOK,
      SamplesAreHeld, SamplesInOrder, DateShown, ThrowHasRoom, NothingCarried, ExtrasCarried
  <1> QED
    BY <1>1, <1>2, <1>3, <1>4, <1>5, <1>6, <1>7 DEF CoordinatorNext, Poll

-------------------------------------------------------------------------------
\* Polls, commands, link and shown data fit together in every interleaving.
THEOREM CoordinatorInvariant == CoordinatorSpec => []CoordinatorInv
  <1>1. CoordinatorInv /\ [CoordinatorNext]_cvars => CoordinatorInv'
    BY StepInv
  <1> QED BY <1>1, CoordinatorInitInv, PTL DEF CoordinatorSpec

\* Type correctness of the coordinator; the lock has one central at a time.
THEOREM CoordinatorTypeCorrect == CoordinatorSpec => []CoordinatorTypeOK
  <1>1. CoordinatorInv => CoordinatorTypeOK
    BY DEF CoordinatorInv
  <1> QED BY <1>1, CoordinatorInvariant, PTL

\* Battery and door show what the last good poll had (coordinator.py:70-76).
THEOREM ExtrasAreKept == CoordinatorSpec => []ExtrasFromLastPoll
  <1>1. CoordinatorInv => ExtrasFromLastPoll
    BY DEF CoordinatorInv, CoordinatorTypeOK, ExtrasCarried, ExtrasFromLastPoll, Available,
      BatteryAvailable, BatteryShows, DoorAvailable, DoorShows, Readings, Decoded, DecodeDoor,
      DOOR_OPEN, DOOR_CLOSED, DOOR_UNKNOWN
  <1> QED BY <1>1, CoordinatorInvariant, PTL

\* A call that returns takes back nothing that was on show while it had the link, at any
\* attempt and in any interleaving with others (device.py:87-101, coordinator.py:59-77).
THEOREM NeverGoesBack == CoordinatorSpec => NeverOlder
  <1>1. CoordinatorInv /\ [CoordinatorNext]_cvars =>
          [data' # data =>
             \E c \in Callers :
                /\ calls[c].at # "idle" /\ calls'[c].at = "idle"
                /\ data' # NoData
                /\ data'.sample.at >= (IF link = c THEN DateShown ELSE calls[c].shown)]_cvars
    BY StepInv DEF TakesNothingBack
  <1> QED BY <1>1, CoordinatorInvariant, PTL DEF CoordinatorSpec, NeverOlder
===============================================================================
