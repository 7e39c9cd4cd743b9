---------------------------- MODULE AuthorizeProofs ----------------------------
(***************************************************************************)
(* Proofs about Authorize, for any number of clicks.                       *)
(***************************************************************************)
EXTENDS MCAuthorize, TLAPS

USE AuthAssumption

\* A report is the last message of its channel, which has room for it.
LEMMA Emitted ==
  ASSUME TypeOK, NEW f \in Clicks, NEW m \in Stages, Emit(f, m), Len(ch[f]) < Cap
  PROVE  /\ ch' \in [Clicks -> Seq(Stages)] /\ \A g \in Clicks : Len(ch'[g]) <= Cap
         /\ Len(ch'[f]) = Len(ch[f]) + 1 /\ ch'[f] # <<>> /\ ch'[f][Len(ch'[f])] = m
         /\ \A i \in 1..Len(ch[f]) : ch'[f][i] = ch[f][i]
         /\ \A g \in Clicks \ {f} : ch'[g] = ch[g]
<1> USE DEF TypeOK, Emit
<1>1. ch' = [ch EXCEPT ![f] = Append(ch[f], m)] OBVIOUS
<1>2. ch[f] \in Seq(Stages) /\ Len(ch[f]) \in Nat OBVIOUS
<1>3. ch'[f] = Append(ch[f], m) BY <1>1
<1>4. \A g \in Clicks \ {f} : ch'[g] = ch[g] BY <1>1
<1>5. Append(ch[f], m) \in Seq(Stages) BY <1>2
<1>6. ch' \in [Clicks -> Seq(Stages)] BY <1>1, <1>5
<1>7. Len(ch'[f]) = Len(ch[f]) + 1 BY <1>2, <1>3
<1>8. /\ ch'[f] # <<>> /\ ch'[f][Len(ch'[f])] = m
      /\ \A i \in 1..Len(ch[f]) : ch'[f][i] = ch[f][i]
  <2> DEFINE s == ch[f]
  <2>1. s \in Seq(Stages) /\ Len(s) \in Nat BY <1>2
  <2> HIDE DEF s
  <2>2. /\ Append(s, m) # <<>> /\ Len(Append(s, m)) = Len(s) + 1
        /\ Append(s, m)[Len(s) + 1] = m
        /\ \A i \in 1..Len(s) : Append(s, m)[i] = s[i]
    BY <2>1
  <2>3. QED BY <1>3, <2>2 DEF s
<1>9. \A g \in Clicks : Len(ch'[g]) <= Cap BY <1>4, <1>7
<1>10. QED BY <1>4, <1>6, <1>7, <1>8, <1>9

\* What a stream takes from a channel.
LEMMA Taken ==
  ASSUME TypeOK, NEW f \in Clicks, ch[f] # <<>>, ch' = [ch EXCEPT ![f] = Tail(ch[f])]
  PROVE  /\ ch' \in [Clicks -> Seq(Stages)] /\ \A g \in Clicks : Len(ch'[g]) <= Cap
         /\ Head(ch[f]) = ch[f][1] /\ Head(ch[f]) \in Stages /\ 1 \in 1..Len(ch[f])
         /\ Len(ch'[f]) = Len(ch[f]) - 1 /\ Len(ch'[f]) \in Nat
         /\ \A i \in 1..Len(ch'[f]) : ch'[f][i] = ch[f][i + 1] /\ i + 1 \in 1..Len(ch[f])
         /\ \A g \in Clicks \ {f} : ch'[g] = ch[g]
<1> USE DEF TypeOK
<1>1. ch[f] \in Seq(Stages) /\ Len(ch[f]) \in Nat /\ Len(ch[f]) > 0 OBVIOUS
<1>2. ch'[f] = Tail(ch[f]) OBVIOUS
<1>3. \A g \in Clicks \ {f} : ch'[g] = ch[g] OBVIOUS
<1>4. Tail(ch[f]) \in Seq(Stages) BY <1>1
<1>5. ch' \in [Clicks -> Seq(Stages)] BY <1>4
<1>6. Len(ch'[f]) = Len(ch[f]) - 1 BY <1>1, <1>2
<1>7. \A i \in 1..Len(ch'[f]) : ch'[f][i] = ch[f][i + 1] /\ i + 1 \in 1..Len(ch[f])
  BY <1>1, <1>2, <1>6
<1>8. Head(ch[f]) = ch[f][1] /\ Head(ch[f]) \in Stages BY <1>1
<1>9. \A g \in Clicks : Len(ch'[g]) <= Cap BY <1>1, <1>3, <1>6
<1>10. QED BY <1>1, <1>3, <1>5, <1>6, <1>7, <1>8, <1>9

\* Nobody has clicked at first.
LEMMA InitInv == Init => Inv
<1> SUFFICES ASSUME Init PROVE Inv OBVIOUS
<1> USE DEF Init
<1>1. TypeOK BY DEF TypeOK
<1>2. OneInFlight /\ Told /\ FlowStarted BY DEF OneInFlight, Told, FlowStarted, InFlight, Listening
<1>3. Decided /\ Room BY DEF Decided, Room, Reported
<1>4. Content BY DEF Content
<1>5. StartsApart /\ OwnChan /\ OwnStream BY DEF StartsApart, OwnChan, OwnStream, Starting
<1>6. Pending /\ Followed BY DEF Pending, Followed
<1>7. NotTold BY DEF NotTold
<1>8. QED BY <1>1, <1>2, <1>3, <1>4, <1>5, <1>6, <1>7 DEF Inv

\* Pages and streams do not touch what flows own, ...
LEMMA FlowsKept ==
  ASSUME Inv, UNCHANGED <<authCh, flow, verdict, ch>>
  PROVE  OneInFlight' /\ Decided' /\ Room' /\ Content'
BY DEF Inv, OneInFlight, Decided, Room, Content, Reported

\* ... nor flows what pages own.
LEMMA PagesKept ==
  ASSUME Inv, UNCHANGED <<pages, authChan>>
  PROVE  StartsApart' /\ OwnChan' /\ OwnStream' /\ NotTold'
BY DEF Inv, pages, StartsApart, OwnChan, OwnStream, NotTold, Starting

\* Every step preserves the invariant.
LEMMA InvStep == Inv /\ [Next]_vars => Inv'
<1> SUFFICES ASSUME Inv, [Next]_vars PROVE Inv' OBVIOUS
<1> USE DEF Inv, pages, loopback, Outcomes, Stages, InFlight, Listening, Reported, Starting, Ended
<1>1. ASSUME NEW c \in Clicks, Click(c) PROVE Inv'
  <2> USE <1>1 DEF Click
  <2>1. TypeOK' BY DEF TypeOK
  <2>2. OneInFlight' /\ Decided' /\ Room' /\ Content' BY FlowsKept
  <2>3. FlowStarted' BY DEF FlowStarted, TypeOK
  <2>4. StartsApart' /\ OwnChan' BY DEF StartsApart, OwnChan, TypeOK
  <2>5. OwnStream' BY DEF OwnStream, TypeOK
  <2>6. Pending' BY DEF Pending, TypeOK
  <2>7. Told' /\ Followed' BY DEF Told, Followed, TypeOK
  <2>8. NotTold' BY DEF NotTold, TypeOK
  <2>9. QED BY <2>1, <2>2, <2>3, <2>4, <2>5, <2>6, <2>7, <2>8
<1>2. ASSUME NEW c \in Clicks, Leave(c) PROVE Inv'
  <2> USE <1>2 DEF Leave
  <2>1. TypeOK' BY DEF TypeOK
  <2>2. OneInFlight' /\ Decided' /\ Room' /\ Content' BY FlowsKept
  <2>3. FlowStarted' BY DEF FlowStarted, TypeOK
  <2>4. StartsApart' /\ OwnChan' BY DEF StartsApart, OwnChan, TypeOK
  <2>5. OwnStream' BY DEF OwnStream, TypeOK
  <2>6. Pending' BY DEF Pending, TypeOK
  <2>7. Told' /\ Followed' BY DEF Told, Followed, TypeOK
  <2>8. NotTold' BY DEF NotTold, TypeOK
  <2>9. QED BY <2>1, <2>2, <2>3, <2>4, <2>5, <2>6, <2>7, <2>8
<1>3. ASSUME NEW c \in Clicks, StartAuthorize(c) PROVE Inv'
  <2> USE <1>3 DEF StartAuthorize
  <2>1. TypeOK' BY DEF TypeOK
  <2>2. OneInFlight' /\ Decided' /\ Room' /\ Content'
    <3> USE DEF FlowStarted, TypeOK
    <3>1. flow[c] = "none" /\ \A f \in Clicks : flow'[f] = IF f = c THEN "new" ELSE flow[f]
      OBVIOUS
    <3>2. UNCHANGED <<ch, verdict, authChan>> /\ authCh = "none" /\ authCh' = c OBVIOUS
    <3> HIDE <1>3 DEF TypeOK, FlowStarted
    <3>3. OneInFlight' BY <3>1, <3>2 DEF OneInFlight
    <3>4. Decided' BY <3>1, <3>2 DEF Decided
    <3>5. Room' BY <3>1, <3>2 DEF Room
    <3>6. Content' BY <3>1, <3>2 DEF Content
    <3>7. QED BY <3>3, <3>4, <3>5, <3>6
  <2>3. FlowStarted' BY DEF FlowStarted, TypeOK
  <2>4. StartsApart' /\ OwnChan' BY DEF StartsApart, OwnChan, TypeOK
  <2>5. OwnStream' BY DEF OwnStream, TypeOK
  <2>6. Pending' BY DEF Pending, FlowStarted, TypeOK
  <2>7. Told' /\ Followed' BY DEF Told, Followed, TypeOK
  <2>8. NotTold' BY DEF NotTold, TypeOK
  <2>9. QED BY <2>1, <2>2, <2>3, <2>4, <2>5, <2>6, <2>7, <2>8
<1>4. ASSUME NEW c \in Clicks, Refuse(c) PROVE Inv'
  <2> USE <1>4 DEF Refuse
  <2>1. TypeOK' BY DEF TypeOK
  <2>2. OneInFlight' /\ Decided' /\ Room' /\ Content' BY FlowsKept
  <2>3. FlowStarted' BY DEF FlowStarted, TypeOK
  <2>4. StartsApart' /\ OwnChan' BY DEF StartsApart, OwnChan, TypeOK
  <2>5. OwnStream' BY DEF OwnStream, TypeOK
  <2>6. Pending' BY DEF Pending, TypeOK
  <2>7. Told' /\ Followed' BY DEF Told, Followed, TypeOK
  <2>8. NotTold' BY DEF NotTold, TypeOK
  <2>9. QED BY <2>1, <2>2, <2>3, <2>4, <2>5, <2>6, <2>7, <2>8
<1>5. ASSUME NEW c \in Clicks, SetChan(c) PROVE Inv'
  <2> USE <1>5 DEF SetChan
  <2>1. TypeOK' BY DEF TypeOK
  <2>2. OneInFlight' /\ Decided' /\ Room' /\ Content' BY FlowsKept
  <2>3. FlowStarted' BY DEF FlowStarted, TypeOK
  <2>4. StartsApart' /\ OwnChan' BY DEF StartsApart, OwnChan, TypeOK
  <2>5. OwnStream' BY DEF OwnStream, TypeOK
  <2>6. Pending' BY DEF Pending, TypeOK
  <2>7. Told' /\ Followed' BY DEF Told, Followed, TypeOK
  <2>8. NotTold' BY DEF NotTold, TypeOK
  <2>9. QED BY <2>1, <2>2, <2>3, <2>4, <2>5, <2>6, <2>7, <2>8
<1>6. ASSUME NEW c \in Clicks, OpenStream(c) PROVE Inv'
  <2> USE <1>6 DEF OpenStream
  <2>1. TypeOK' BY DEF TypeOK
  <2>2. OneInFlight' /\ Decided' /\ Room' /\ Content' BY FlowsKept
  <2>3. FlowStarted' BY DEF FlowStarted, TypeOK
  <2>4. StartsApart' /\ OwnChan' BY DEF StartsApart, OwnChan, TypeOK
  <2>5. OwnStream' BY DEF OwnStream, OwnChan, TypeOK
  <2>6. Pending' BY DEF Pending, OwnChan, TypeOK
  <2>7. Told' /\ Followed' BY DEF Told, Followed, OwnChan, TypeOK
  <2>8. NotTold' BY DEF NotTold, TypeOK
  <2>9. QED BY <2>1, <2>2, <2>3, <2>4, <2>5, <2>6, <2>7, <2>8
<1>7. ASSUME NEW c \in Clicks, Pass(c) PROVE Inv'
  <2> DEFINE f == stream[c]
             m == Head(ch[f])
             read == m \in Outcomes /\ page[c] = "following" /\ here[c]
  <2> USE <1>7
  <2>1. f \in Clicks /\ ch[f] # <<>> /\ ch' = [ch EXCEPT ![f] = Tail(ch[f])] BY DEF Pass, TypeOK
  <2>2. /\ ch' \in [Clicks -> Seq(Stages)] /\ \A g \in Clicks : Len(ch'[g]) <= Cap
        /\ m = ch[f][1] /\ 1 \in 1..Len(ch[f])
        /\ Len(ch'[f]) = Len(ch[f]) - 1 /\ Len(ch'[f]) \in Nat
        /\ \A i \in 1..Len(ch'[f]) : ch'[f][i] = ch[f][i + 1] /\ i + 1 \in 1..Len(ch[f])
        /\ \A g \in Clicks \ {f} : ch'[g] = ch[g]
    BY <2>1, Taken
  <2>3. page[c] \in {"following", "done"} BY <2>1 DEF OwnStream
  <2>4. /\ stream'[c] \in {f, "none"} /\ (stream'[c] = "none" => m = "error")
        /\ seen'[c] = IF read THEN m ELSE seen[c]
        /\ page'[c] = IF read THEN "done" ELSE page[c]
        /\ \A d \in Clicks \ {c} : stream'[d] = stream[d] /\ seen'[d] = seen[d] /\ page'[d] = page[d]
    BY DEF Pass, TypeOK
  <2>5. UNCHANGED <<here, overlap, authCh, authChan, flow, verdict, loopback, account>> BY DEF Pass
  <2>6. TypeOK' BY <2>2 DEF Pass, TypeOK
  <2>7. read => m = verdict[f] /\ Reported(f) BY <2>1, <2>2 DEF Content
  <2> HIDE <1>7 DEF m, read, f
  <2>8. OneInFlight' /\ Decided' BY <2>5 DEF OneInFlight, Decided
  <2>9. FlowStarted' BY <2>3, <2>4, <2>5 DEF FlowStarted
  <2>10. Room' BY <2>1, <2>2, <2>5 DEF Room, TypeOK
  <2>11. Content' BY <2>1, <2>2, <2>5 DEF Content
  <2>12. StartsApart' /\ OwnChan' BY <2>3, <2>4, <2>5 DEF StartsApart, OwnChan
  <2>13. OwnStream' BY <2>3, <2>4, <2>5 DEF OwnStream, f, read
  <2>14. Told' /\ Followed'
    <3>1. read /\ c \notin overlap => f = c BY <2>1 DEF OwnStream, f
    <3>2. QED BY <2>4, <2>5, <2>7, <3>1 DEF Told, Followed, read
  <2>15. NotTold' BY <2>4 DEF NotTold
  <2>16. Pending'
    <3> SUFFICES ASSUME NEW d \in Clicks, d \notin overlap, here[d], Reported(d),
                        page'[d] \in {"started", "ready", "following"}
                 PROVE  ch'[d] # <<>> /\ ch'[d][Len(ch'[d])] = verdict[d]
      BY <2>5 DEF Pending
    <3>1. page[d] \in {"started", "ready", "following"} BY <2>4
    <3>2. ch[d] # <<>> /\ ch[d][Len(ch[d])] = verdict[d] BY <3>1 DEF Pending
    <3>3. CASE f # d BY <2>2, <3>2, <3>3
    <3>4. CASE f = d
      <4>1. c = d /\ page[d] = "following" BY <3>1, <3>4 DEF OwnStream, f
      <4>2. Len(ch[d]) # 1
        <5>1. page'[c] # "done" BY <4>1
        <5>2. ~read BY <2>4, <5>1
        <5>3. m \notin Outcomes BY <4>1, <5>2 DEF read
        <5>4. verdict[d] \in Outcomes BY DEF Decided
        <5>5. m # verdict[d] BY <5>3, <5>4
        <5>6. QED BY <2>2, <3>2, <3>4, <5>5
      <4>3. Len(ch[d]) \in Nat /\ ch'[d] \in Seq(Stages) BY <2>2 DEF TypeOK
      <4> DEFINE n == Len(ch'[d])
      <4>4. n = Len(ch[d]) - 1 /\ n \in Nat BY <2>2, <3>4
      <4>5. n + 1 = Len(ch[d]) /\ n # 0 BY <4>2, <4>3, <4>4
      <4>6. \A i \in 1..n : ch'[d][i] = ch[d][i + 1] BY <2>2, <3>4
      <4>7. ch'[d] # <<>> BY <4>3, <4>5
      <4> HIDE DEF n
      <4>8. n \in 1..n
        <5>1. n \in Nat /\ n # 0 BY <4>4, <4>5
        <5> HIDE DEF Inv
        <5>2. QED BY <5>1
      <4>9. ch'[d][n] = ch[d][Len(ch[d])] BY <4>5, <4>6, <4>8
      <4>10. QED BY <3>2, <4>7, <4>9 DEF n
    <3>5. QED BY <3>3, <3>4
  <2>17. QED BY <2>6, <2>8, <2>9, <2>10, <2>11, <2>12, <2>13, <2>14, <2>15, <2>16
<1>8. ASSUME NEW c \in Clicks, PassDone(c) PROVE Inv'
  <2> USE <1>8 DEF PassDone
  <2>1. TypeOK' BY DEF TypeOK
  <2>2. OneInFlight' /\ Decided' /\ Room' /\ Content' BY FlowsKept
  <2>3. FlowStarted' BY DEF FlowStarted, OwnStream, TypeOK
  <2>4. StartsApart' /\ OwnChan' BY DEF StartsApart, OwnChan, OwnStream, TypeOK
  <2>5. OwnStream' BY DEF OwnStream, TypeOK
  <2>6. Pending' BY DEF Pending, TypeOK
  <2>7. Told' /\ Followed'
    <3>1. stream[c] \in Clicks /\ Ended(stream[c]) /\ ch[stream[c]] = <<>> BY DEF TypeOK
    <3>2. c \notin overlap => stream[c] = c BY <3>1 DEF OwnStream
    <3>3. c \notin overlap /\ here[c] => page[c] = "done"
      BY <3>1, <3>2 DEF Pending, OwnStream
    <3>4. /\ page'[c] = "done" /\ \A d \in Clicks \ {c} : page'[d] = page[d]
          /\ UNCHANGED <<here, overlap, seen, verdict, flow>>
      BY DEF TypeOK
    <3> HIDE <1>8
    <3>5. QED BY <3>3, <3>4 DEF Told, Followed
  <2>8. NotTold' BY DEF NotTold, TypeOK
  <2>9. QED BY <2>1, <2>2, <2>3, <2>4, <2>5, <2>6, <2>7, <2>8
<1>9. ASSUME NEW c \in Clicks, PassCancelled(c) PROVE Inv'
  <2> USE <1>9 DEF PassCancelled
  <2>1. TypeOK' BY DEF TypeOK
  <2>2. OneInFlight' /\ Decided' /\ Room' /\ Content' BY FlowsKept
  <2>3. FlowStarted' BY DEF FlowStarted, TypeOK
  <2>4. StartsApart' /\ OwnChan' BY DEF StartsApart, OwnChan, TypeOK
  <2>5. OwnStream' BY DEF OwnStream, TypeOK
  <2>6. Pending' BY DEF Pending, TypeOK
  <2>7. Told' /\ Followed' BY DEF Told, Followed, TypeOK
  <2>8. NotTold' BY DEF NotTold, TypeOK
  <2>9. QED BY <2>1, <2>2, <2>3, <2>4, <2>5, <2>6, <2>7, <2>8
<1>10. ASSUME NEW c \in Clicks, CallbackBegins(c) PROVE Inv'
  <2> USE <1>10 DEF CallbackBegins
  <2>1. TypeOK' BY DEF TypeOK
  <2>2. OneInFlight' /\ Decided' /\ Room' /\ Content' BY FlowsKept
  <2>3. FlowStarted' BY DEF FlowStarted, TypeOK
  <2>4. StartsApart' /\ OwnChan' BY DEF StartsApart, OwnChan, TypeOK
  <2>5. OwnStream' BY DEF OwnStream, TypeOK
  <2>6. Pending' BY DEF Pending, TypeOK
  <2>7. Told' /\ Followed' BY DEF Told, Followed, TypeOK
  <2>8. NotTold' BY DEF NotTold, TypeOK
  <2>9. QED BY <2>1, <2>2, <2>3, <2>4, <2>5, <2>6, <2>7, <2>8
<1>11. ASSUME NEW c \in Clicks, Callback(c) PROVE Inv'
  <2> USE <1>11 DEF Callback, CallbackReturns
  <2>1. TypeOK' BY DEF TypeOK
  <2>2. OneInFlight' /\ Decided' /\ Room' /\ Content' BY FlowsKept
  <2>3. FlowStarted' BY DEF FlowStarted, TypeOK
  <2>4. StartsApart' /\ OwnChan' BY DEF StartsApart, OwnChan, TypeOK
  <2>5. OwnStream' BY DEF OwnStream, TypeOK
  <2>6. Pending' BY DEF Pending, TypeOK
  <2>7. Told' /\ Followed' BY DEF Told, Followed, TypeOK
  <2>8. NotTold' BY DEF NotTold, TypeOK
  <2>9. QED BY <2>1, <2>2, <2>3, <2>4, <2>5, <2>6, <2>7, <2>8
<1>12. ASSUME NEW f \in Clicks, CannotListen(f) PROVE Inv'
  <2> USE <1>12 DEF CannotListen, Goto, Decide
  <2>1. TypeOK' BY DEF TypeOK
  <2>2. StartsApart' /\ OwnChan' /\ OwnStream' /\ NotTold' BY PagesKept
  <2>3. OneInFlight' /\ FlowStarted' /\ Decided' BY DEF OneInFlight, FlowStarted, Decided, TypeOK
  <2>4. Room' /\ Content' BY DEF Room, Content, TypeOK
  <2>5. Pending' BY DEF Pending, TypeOK
  <2>6. Told' /\ Followed'
    <3>1. ~(page[f] = "done" /\ here[f] /\ f \notin overlap) BY DEF Followed
    <3>2. \A c \in Clicks \ {f} : verdict'[c] = verdict[c] /\ flow'[c] = flow[c] BY DEF TypeOK
    <3>3. UNCHANGED pages OBVIOUS
    <3>4. QED BY <3>1, <3>2, <3>3 DEF Told, Followed
  <2>7. QED BY <2>1, <2>2, <2>3, <2>4, <2>5, <2>6
<1>13. ASSUME NEW f \in Clicks, OpenBrowser(f) PROVE Inv'
  <2> USE <1>13 DEF OpenBrowser, Goto
  <2>1. Len(ch[f]) \in Nat /\ Len(ch[f]) < Cap BY DEF Room, TypeOK
  <2>2. ch' \in [Clicks -> Seq(Stages)] /\ \A g \in Clicks : Len(ch'[g]) <= Cap
    BY <2>1, Emitted
  <2>3. Len(ch'[f]) = Len(ch[f]) + 1 /\ \A g \in Clicks \ {f} : ch'[g] = ch[g]
    BY <2>1, Emitted
  <2>4. /\ ch'[f] # <<>> /\ ch'[f][Len(ch'[f])] = "info"
        /\ \A i \in 1..Len(ch[f]) : ch'[f][i] = ch[f][i]
    BY <2>1, Emitted
  <2>5. flow'[f] = "opened" /\ \A g \in Clicks \ {f} : flow'[g] = flow[g] BY DEF TypeOK
  <2>6. flow[f] = "new" /\ UNCHANGED <<pages, authCh, authChan, verdict, account>> OBVIOUS
  <2>7. TypeOK' BY <2>2 DEF TypeOK
  <2> HIDE <1>13
  <2>8. OneInFlight' /\ FlowStarted' /\ Decided'
    BY <2>5, <2>6 DEF OneInFlight, FlowStarted, Decided
  <2>9. Room' BY <2>1, <2>3, <2>5, <2>6 DEF Room
  <2>10. Content'
    <3>1. \A i \in 1..Len(ch'[f]) : i \in 1..Len(ch[f]) \/ i = Len(ch'[f]) BY <2>1, <2>3
    <3>2. \A i \in 1..Len(ch[f]) : ch'[f][i] = "info" BY <2>4, <2>6 DEF Content
    <3>3. QED BY <2>3, <2>4, <2>5, <2>6, <3>1, <3>2 DEF Content
  <2>11. StartsApart' /\ OwnChan' /\ OwnStream' BY <2>6 DEF StartsApart, OwnChan, OwnStream
  <2>12. Pending' BY <2>3, <2>4, <2>5, <2>6 DEF Pending
  <2>13. Told' /\ Followed' /\ NotTold' BY <2>5, <2>6 DEF Told, Followed, NotTold
  <2>14. QED BY <2>7, <2>8, <2>9, <2>10, <2>11, <2>12, <2>13
<1>14. ASSUME NEW f \in Clicks, AskUser(f) PROVE Inv'
  <2> USE <1>14 DEF AskUser, Goto
  <2>1. Len(ch[f]) \in Nat /\ Len(ch[f]) < Cap BY DEF Room, TypeOK
  <2>2. ch' \in [Clicks -> Seq(Stages)] /\ \A g \in Clicks : Len(ch'[g]) <= Cap
    BY <2>1, Emitted
  <2>3. Len(ch'[f]) = Len(ch[f]) + 1 /\ \A g \in Clicks \ {f} : ch'[g] = ch[g]
    BY <2>1, Emitted
  <2>4. /\ ch'[f] # <<>> /\ ch'[f][Len(ch'[f])] = "info"
        /\ \A i \in 1..Len(ch[f]) : ch'[f][i] = ch[f][i]
    BY <2>1, Emitted
  <2>5. flow'[f] = "waiting" /\ \A g \in Clicks \ {f} : flow'[g] = flow[g] BY DEF TypeOK
  <2>6. flow[f] = "opened" /\ UNCHANGED <<pages, authCh, authChan, verdict, account>> OBVIOUS
  <2>7. TypeOK' BY <2>2 DEF TypeOK
  <2> HIDE <1>14
  <2>8. OneInFlight' /\ FlowStarted' /\ Decided'
    BY <2>5, <2>6 DEF OneInFlight, FlowStarted, Decided
  <2>9. Room' BY <2>1, <2>3, <2>5, <2>6 DEF Room
  <2>10. Content'
    <3>1. \A i \in 1..Len(ch'[f]) : i \in 1..Len(ch[f]) \/ i = Len(ch'[f]) BY <2>1, <2>3
    <3>2. \A i \in 1..Len(ch[f]) : ch'[f][i] = "info" BY <2>4, <2>6 DEF Content
    <3>3. QED BY <2>3, <2>4, <2>5, <2>6, <3>1, <3>2 DEF Content
  <2>11. StartsApart' /\ OwnChan' /\ OwnStream' BY <2>6 DEF StartsApart, OwnChan, OwnStream
  <2>12. Pending' BY <2>3, <2>4, <2>5, <2>6 DEF Pending
  <2>13. Told' /\ Followed' /\ NotTold' BY <2>5, <2>6 DEF Told, Followed, NotTold
  <2>14. QED BY <2>7, <2>8, <2>9, <2>10, <2>11, <2>12, <2>13
<1>15. ASSUME NEW f \in Clicks, TakeCode(f) PROVE Inv'
  <2> USE <1>15 DEF TakeCode, Goto
  <2>1. Len(ch[f]) \in Nat /\ Len(ch[f]) < Cap BY DEF Room, TypeOK
  <2>2. ch' \in [Clicks -> Seq(Stages)] /\ \A g \in Clicks : Len(ch'[g]) <= Cap
    BY <2>1, Emitted
  <2>3. Len(ch'[f]) = Len(ch[f]) + 1 /\ \A g \in Clicks \ {f} : ch'[g] = ch[g]
    BY <2>1, Emitted
  <2>4. /\ ch'[f] # <<>> /\ ch'[f][Len(ch'[f])] = "info"
        /\ \A i \in 1..Len(ch[f]) : ch'[f][i] = ch[f][i]
    BY <2>1, Emitted
  <2>5. flow'[f] = "exchanging" /\ \A g \in Clicks \ {f} : flow'[g] = flow[g] BY DEF TypeOK
  <2>6. flow[f] = "waiting" /\ UNCHANGED <<pages, authCh, authChan, verdict, account>> OBVIOUS
  <2>7. TypeOK' BY <2>2 DEF TypeOK
  <2> HIDE <1>15
  <2>8. OneInFlight' /\ FlowStarted' /\ Decided'
    BY <2>5, <2>6 DEF OneInFlight, FlowStarted, Decided
  <2>9. Room' BY <2>1, <2>3, <2>5, <2>6 DEF Room
  <2>10. Content'
    <3>1. \A i \in 1..Len(ch'[f]) : i \in 1..Len(ch[f]) \/ i = Len(ch'[f]) BY <2>1, <2>3
    <3>2. \A i \in 1..Len(ch[f]) : ch'[f][i] = "info" BY <2>4, <2>6 DEF Content
    <3>3. QED BY <2>3, <2>4, <2>5, <2>6, <3>1, <3>2 DEF Content
  <2>11. StartsApart' /\ OwnChan' /\ OwnStream' BY <2>6 DEF StartsApart, OwnChan, OwnStream
  <2>12. Pending' BY <2>3, <2>4, <2>5, <2>6 DEF Pending
  <2>13. Told' /\ Followed' /\ NotTold' BY <2>5, <2>6 DEF Told, Followed, NotTold
  <2>14. QED BY <2>7, <2>8, <2>9, <2>10, <2>11, <2>12, <2>13
<1>16. ASSUME NEW f \in Clicks, TakeRefusal(f) PROVE Inv'
  <2> USE <1>16 DEF TakeRefusal, Goto, Decide
  <2>1. TypeOK' BY DEF TypeOK
  <2>2. StartsApart' /\ OwnChan' /\ OwnStream' /\ NotTold' BY PagesKept
  <2>3. OneInFlight' /\ FlowStarted' /\ Decided' BY DEF OneInFlight, FlowStarted, Decided, TypeOK
  <2>4. Room' /\ Content' BY DEF Room, Content, TypeOK
  <2>5. Pending' BY DEF Pending, TypeOK
  <2>6. Told' /\ Followed'
    <3>1. ~(page[f] = "done" /\ here[f] /\ f \notin overlap) BY DEF Followed
    <3>2. \A c \in Clicks \ {f} : verdict'[c] = verdict[c] /\ flow'[c] = flow[c] BY DEF TypeOK
    <3>3. UNCHANGED pages OBVIOUS
    <3>4. QED BY <3>1, <3>2, <3>3 DEF Told, Followed
  <2>7. QED BY <2>1, <2>2, <2>3, <2>4, <2>5, <2>6
<1>17. ASSUME NEW f \in Clicks, TimedOut(f) PROVE Inv'
  <2> USE <1>17 DEF TimedOut, Goto, Decide
  <2>1. TypeOK' BY DEF TypeOK
  <2>2. StartsApart' /\ OwnChan' /\ OwnStream' /\ NotTold' BY PagesKept
  <2>3. OneInFlight' /\ FlowStarted' /\ Decided' BY DEF OneInFlight, FlowStarted, Decided, TypeOK
  <2>4. Room' /\ Content' BY DEF Room, Content, TypeOK
  <2>5. Pending' BY DEF Pending, TypeOK
  <2>6. Told' /\ Followed'
    <3>1. ~(page[f] = "done" /\ here[f] /\ f \notin overlap) BY DEF Followed
    <3>2. \A c \in Clicks \ {f} : verdict'[c] = verdict[c] /\ flow'[c] = flow[c] BY DEF TypeOK
    <3>3. UNCHANGED pages OBVIOUS
    <3>4. QED BY <3>1, <3>2, <3>3 DEF Told, Followed
  <2>7. QED BY <2>1, <2>2, <2>3, <2>4, <2>5, <2>6
<1>18. ASSUME NEW f \in Clicks, NEW o \in Outcomes, Exchange(f, o) PROVE Inv'
  <2> USE <1>18 DEF Exchange, Goto, Decide
  <2>1. TypeOK' BY DEF TypeOK
  <2>2. StartsApart' /\ OwnChan' /\ OwnStream' /\ NotTold' BY PagesKept
  <2>3. OneInFlight' /\ FlowStarted' /\ Decided' BY DEF OneInFlight, FlowStarted, Decided, TypeOK
  <2>4. Room' /\ Content' BY DEF Room, Content, TypeOK
  <2>5. Pending' BY DEF Pending, TypeOK
  <2>6. Told' /\ Followed'
    <3>1. ~(page[f] = "done" /\ here[f] /\ f \notin overlap) BY DEF Followed
    <3>2. \A c \in Clicks \ {f} : verdict'[c] = verdict[c] /\ flow'[c] = flow[c] BY DEF TypeOK
    <3>3. UNCHANGED pages OBVIOUS
    <3>4. QED BY <3>1, <3>2, <3>3 DEF Told, Followed
  <2>7. QED BY <2>1, <2>2, <2>3, <2>4, <2>5, <2>6
<1>19. ASSUME NEW f \in Clicks, ShutDown(f) PROVE Inv'
  <2> USE <1>19 DEF ShutDown, Goto
  <2>1. TypeOK' BY DEF TypeOK
  <2>2. StartsApart' /\ OwnChan' /\ OwnStream' /\ NotTold' BY PagesKept
  <2>3. OneInFlight' /\ FlowStarted' /\ Decided' BY DEF OneInFlight, FlowStarted, Decided, TypeOK
  <2>4. Room' /\ Content' BY DEF Room, Content, TypeOK
  <2>5. Pending' BY DEF Pending, TypeOK
  <2>6. Told' /\ Followed' BY DEF Told, Followed, TypeOK
  <2>7. QED BY <2>1, <2>2, <2>3, <2>4, <2>5, <2>6
<1>20. ASSUME NEW f \in Clicks, ReportError(f) PROVE Inv'
  <2> USE <1>20 DEF ReportError, Goto
  <2>1. Len(ch[f]) \in Nat /\ Len(ch[f]) < Cap BY DEF Room, TypeOK
  <2>2. ch' \in [Clicks -> Seq(Stages)] /\ \A g \in Clicks : Len(ch'[g]) <= Cap
    BY <2>1, Emitted
  <2>3. Len(ch'[f]) = Len(ch[f]) + 1 /\ \A g \in Clicks \ {f} : ch'[g] = ch[g]
    BY <2>1, Emitted
  <2>4. /\ ch'[f] # <<>> /\ ch'[f][Len(ch'[f])] = "error"
        /\ \A i \in 1..Len(ch[f]) : ch'[f][i] = ch[f][i]
    BY <2>1, Emitted
  <2>5. flow'[f] = "leaving" /\ \A g \in Clicks \ {f} : flow'[g] = flow[g] BY DEF TypeOK
  <2>6. flow[f] = "returned" /\ UNCHANGED <<pages, authCh, authChan, verdict, account>> OBVIOUS
  <2>7. TypeOK' BY <2>2 DEF TypeOK
  <2>8. verdict[f] = "error" BY DEF Decided
  <2> HIDE <1>20
  <2>9. OneInFlight' /\ FlowStarted' /\ Decided'
    BY <2>5, <2>6, <2>8 DEF OneInFlight, FlowStarted, Decided
  <2>10. Room' BY <2>1, <2>3, <2>5, <2>6 DEF Room
  <2>11. Content'
    <3>1. \A i \in 1..Len(ch'[f]) : i \in 1..Len(ch[f]) \/ i = Len(ch'[f]) BY <2>1, <2>3
    <3>2. \A i \in 1..Len(ch[f]) : ch'[f][i] = "info" BY <2>4, <2>6 DEF Content
    <3>3. QED BY <2>3, <2>4, <2>5, <2>6, <2>8, <3>1, <3>2 DEF Content
  <2>12. StartsApart' /\ OwnChan' /\ OwnStream' BY <2>6 DEF StartsApart, OwnChan, OwnStream
  <2>13. Pending' BY <2>3, <2>4, <2>5, <2>6, <2>8 DEF Pending
  <2>14. Told' /\ Followed' /\ NotTold' BY <2>5, <2>6 DEF Told, Followed, NotTold
  <2>15. QED BY <2>7, <2>9, <2>10, <2>11, <2>12, <2>13, <2>14
<1>21. ASSUME NEW f \in Clicks, SaveAccount(f) PROVE Inv'
  <2> USE <1>21 DEF SaveAccount, Goto
  <2>1. TypeOK' BY DEF TypeOK
  <2>2. StartsApart' /\ OwnChan' /\ OwnStream' /\ NotTold' BY PagesKept
  <2>3. OneInFlight' /\ FlowStarted' /\ Decided' BY DEF OneInFlight, FlowStarted, Decided, TypeOK
  <2>4. Room' /\ Content' BY DEF Room, Content, TypeOK
  <2>5. Pending' BY DEF Pending, TypeOK
  <2>6. Told' /\ Followed' BY DEF Told, Followed, TypeOK
  <2>7. QED BY <2>1, <2>2, <2>3, <2>4, <2>5, <2>6
<1>22. ASSUME NEW f \in Clicks, ReportSuccess(f) PROVE Inv'
  <2> USE <1>22 DEF ReportSuccess, Goto
  <2>1. Len(ch[f]) \in Nat /\ Len(ch[f]) < Cap BY DEF Room, TypeOK
  <2>2. ch' \in [Clicks -> Seq(Stages)] /\ \A g \in Clicks : Len(ch'[g]) <= Cap
    BY <2>1, Emitted
  <2>3. Len(ch'[f]) = Len(ch[f]) + 1 /\ \A g \in Clicks \ {f} : ch'[g] = ch[g]
    BY <2>1, Emitted
  <2>4. /\ ch'[f] # <<>> /\ ch'[f][Len(ch'[f])] = "success"
        /\ \A i \in 1..Len(ch[f]) : ch'[f][i] = ch[f][i]
    BY <2>1, Emitted
  <2>5. flow'[f] = "leaving" /\ \A g \in Clicks \ {f} : flow'[g] = flow[g] BY DEF TypeOK
  <2>6. flow[f] = "saved" /\ UNCHANGED <<pages, authCh, authChan, verdict, account>> OBVIOUS
  <2>7. TypeOK' BY <2>2 DEF TypeOK
  <2>8. verdict[f] = "success" BY DEF Decided
  <2> HIDE <1>22
  <2>9. OneInFlight' /\ FlowStarted' /\ Decided'
    BY <2>5, <2>6, <2>8 DEF OneInFlight, FlowStarted, Decided
  <2>10. Room' BY <2>1, <2>3, <2>5, <2>6 DEF Room
  <2>11. Content'
    <3>1. \A i \in 1..Len(ch'[f]) : i \in 1..Len(ch[f]) \/ i = Len(ch'[f]) BY <2>1, <2>3
    <3>2. \A i \in 1..Len(ch[f]) : ch'[f][i] = "info" BY <2>4, <2>6 DEF Content
    <3>3. QED BY <2>3, <2>4, <2>5, <2>6, <2>8, <3>1, <3>2 DEF Content
  <2>12. StartsApart' /\ OwnChan' /\ OwnStream' BY <2>6 DEF StartsApart, OwnChan, OwnStream
  <2>13. Pending' BY <2>3, <2>4, <2>5, <2>6, <2>8 DEF Pending
  <2>14. Told' /\ Followed' /\ NotTold' BY <2>5, <2>6 DEF Told, Followed, NotTold
  <2>15. QED BY <2>7, <2>9, <2>10, <2>11, <2>12, <2>13, <2>14
<1>23. ASSUME NEW f \in Clicks, Vacate(f) PROVE Inv'
  <2> USE <1>23 DEF Vacate, Goto
  <2>1. TypeOK' BY DEF TypeOK
  <2>2. StartsApart' /\ OwnChan' /\ OwnStream' /\ NotTold' BY PagesKept
  <2>3. OneInFlight' /\ FlowStarted' /\ Decided' BY DEF OneInFlight, FlowStarted, Decided, TypeOK
  <2>4. Room' /\ Content' BY DEF Room, Content, TypeOK
  <2>5. Pending' BY DEF Pending, TypeOK
  <2>6. Told' /\ Followed' BY DEF Told, Followed, TypeOK
  <2>7. QED BY <2>1, <2>2, <2>3, <2>4, <2>5, <2>6
<1>24. ASSUME NEW f \in Clicks, CloseChan(f) PROVE Inv'
  <2> USE <1>24 DEF CloseChan, Goto
  <2>1. TypeOK' BY DEF TypeOK
  <2>2. StartsApart' /\ OwnChan' /\ OwnStream' /\ NotTold' BY PagesKept
  <2>3. OneInFlight' /\ FlowStarted' /\ Decided' BY DEF OneInFlight, FlowStarted, Decided, TypeOK
  <2>4. Room' /\ Content' BY DEF Room, Content, TypeOK
  <2>5. Pending' BY DEF Pending, TypeOK
  <2>6. Told' /\ Followed' BY DEF Told, Followed, TypeOK
  <2>7. QED BY <2>1, <2>2, <2>3, <2>4, <2>5, <2>6
<1>25. ASSUME UNCHANGED vars PROVE Inv'
  <2> USE <1>25 DEF vars
  <2>1. TypeOK' /\ FlowStarted' BY DEF TypeOK, FlowStarted
  <2>2. OneInFlight' /\ Decided' /\ Room' /\ Content' BY FlowsKept
  <2>3. StartsApart' /\ OwnChan' /\ OwnStream' /\ NotTold' BY PagesKept
  <2>4. Pending' /\ Told' /\ Followed' BY DEF Pending, Told, Followed
  <2>5. QED BY <2>1, <2>2, <2>3, <2>4
<1>26. QED
  BY <1>1, <1>2, <1>3, <1>4, <1>5, <1>6, <1>7, <1>8, <1>9, <1>10, <1>11, <1>12, <1>13, <1>14, <1>15,
     <1>16, <1>17, <1>18, <1>19, <1>20, <1>21, <1>22, <1>23, <1>24, <1>25
  DEF Next, Post, Stream, Flow

\* Spec keeps the invariant.
THEOREM Invariance == Spec => []Inv
<1>1. QED
  BY InitInv, InvStep, PTL DEF Spec

\* Every variable has its type; in particular no channel holds more than it can.
THEOREM TypeCorrect == Spec => []TypeOK
BY Invariance, PTL DEF Inv

\* authCh names the one flow that is in flight.
THEOREM OneFlight == Spec => []OneInFlight
BY Invariance, PTL DEF Inv

\* A page that followed its click to the end was told the outcome of its own flow,
\* unless another click overlapped it.
THEOREM ToldItsOwn == Spec => []Told
BY Invariance, PTL DEF Inv

-----------------------------------------------------------------------------
(* Every flow comes to its end.                                            *)

\* What is left is a number; a flow that listens, or begins, has all the handlers it may
\* meet still to come.
LEMMA LeftTyped ==
  ASSUME TypeOK, NEW f \in Clicks
  PROVE  /\ FlowLeft(f) \in 0..9 /\ Waited(f) \in 0..AtOnce
         /\ FlowLeft(f) = 0 <=> flow[f] \in {"none", "ended"}
         /\ Left(f) = FlowLeft(f) + Waited(f)
<1>1. flow[f] \in {"none", "closing", "ended"} \cup InFlight /\ callbacks[f] \in 0..AtOnce
  BY DEF TypeOK
<1>2. FlowLeft(f) \in 0..9 /\ (FlowLeft(f) = 0 <=> flow[f] \in {"none", "ended"})
  BY <1>1 DEF FlowLeft, InFlight, Listening
<1>3. QED BY <1>1, <1>2 DEF Waited, Left

\* A step of a flow takes it forward, moves no other and no handler, and gives it no
\* more handlers to wait for.
LEMMA FlowStep ==
  ASSUME TypeOK, NEW f \in Clicks, Flow(f)
  PROVE  /\ FlowLeft(f)' \in Nat /\ FlowLeft(f)' < FlowLeft(f)
         /\ Waited(f)' \in Nat /\ Waited(f)' <= Waited(f)
         /\ \A g \in Clicks \ {f} : flow'[g] = flow[g]
         /\ UNCHANGED callbacks /\ flow[f] # "none"
<1> DEFINE On(p, q) == flow[f] = p /\ flow' = [flow EXCEPT ![f] = q]
<1>1. UNCHANGED callbacks
  BY DEF Flow, CannotListen, OpenBrowser, AskUser, TakeCode, TakeRefusal, TimedOut,
         Exchange, ShutDown, ReportError, SaveAccount, ReportSuccess, Vacate, CloseChan,
         loopback
<1>2. \/ On("new", "returned") \/ On("new", "opened") \/ On("opened", "waiting")
      \/ On("waiting", "exchanging") \/ On("waiting", "shutting")
      \/ On("exchanging", "shutting") \/ On("shutting", "returned")
      \/ On("returned", "leaving") \/ On("returned", "saved") \/ On("saved", "leaving")
      \/ On("leaving", "closing") \/ On("closing", "ended")
  BY DEF Flow, CannotListen, OpenBrowser, AskUser, TakeCode, TakeRefusal, TimedOut,
         Exchange, ShutDown, ReportError, SaveAccount, ReportSuccess, Vacate, CloseChan,
         Goto
<1>3. ASSUME NEW p, NEW q, On(p, q) PROVE flow[f] = p /\ flow'[f] = q
  BY <1>3 DEF TypeOK
<1>4. FlowLeft(f)' \in Nat /\ FlowLeft(f)' < FlowLeft(f) /\ flow[f] # "none"
  BY <1>2, <1>3 DEF FlowLeft
<1>5. flow'[f] \in Listening \cup {"new"} => flow[f] \in Listening \cup {"new"}
  BY <1>2, <1>3 DEF Listening
<1>6. Waited(f)' \in Nat /\ Waited(f)' <= Waited(f)
  BY <1>1, <1>5 DEF Waited, TypeOK
<1>7. \A g \in Clicks \ {f} : flow'[g] = flow[g] BY <1>2 DEF TypeOK
<1> HIDE DEF On
<1>8. QED BY <1>1, <1>4, <1>6, <1>7

\* A handler begins while its flow listens, when it is counted already; later it is
\* counted no more when it returns.
LEMMA HandlerStep ==
  ASSUME TypeOK, NEW f \in Clicks, CallbackBegins(f) \/ Callback(f)
  PROVE  /\ Waited(f)' \in Nat /\ Waited(f)' <= Waited(f)
         /\ Callback(f) /\ flow[f] \notin Listening /\ flow[f] # "new"
              => Waited(f)' < Waited(f)
         /\ \A g \in Clicks \ {f} : callbacks'[g] = callbacks[g]
         /\ UNCHANGED flow /\ (callbacks[f] > 0 \/ flow[f] \in Listening)
<1> USE DEF CallbackBegins, Callback, CallbackReturns, TypeOK
<1>1. CASE flow[f] \in Listening \cup {"new"}
  BY <1>1 DEF Waited
<1>2. CASE flow[f] \notin Listening \cup {"new"}
  <2>1. callbacks[f] \in Nat /\ callbacks[f] > 0 /\ callbacks'[f] = callbacks[f] - 1
    BY <1>2
  <2>2. QED BY <1>2, <2>1 DEF Waited
<1>3. QED BY <1>1, <1>2

\* Everything else leaves flows and handlers alone, but for the start of a flow.
LEMMA ElseKept ==
  ASSUME TypeOK, NEW c \in Clicks,
         \/ Click(c) \/ Leave(c) \/ OpenStream(c) \/ Post(c) \/ Stream(c)
         \/ UNCHANGED vars
  PROVE  /\ UNCHANGED callbacks
         /\ \A f \in Clicks : \/ flow'[f] = flow[f]
                              \/ page[f] = "posted" /\ flow'[f] = "new"
<1>1. CASE StartAuthorize(c)
  <2>1. flow' = [flow EXCEPT ![c] = "new"] /\ page[c] = "posted" /\ UNCHANGED callbacks
    BY <1>1 DEF StartAuthorize, loopback
  <2>2. \A f \in Clicks : flow'[f] = IF f = c THEN "new" ELSE flow[f]
    BY <2>1 DEF TypeOK
  <2>3. \A f \in Clicks : f = c \/ flow'[f] = flow[f] BY <2>2
  <2>4. flow'[c] = "new" BY <2>2
  <2>5. QED BY <1>1, <2>1, <2>3, <2>4
<1>2. CASE ~StartAuthorize(c)
  <2>1. CASE Click(c) \/ Leave(c) \/ OpenStream(c) \/ UNCHANGED vars
    BY <2>1 DEF Click, Leave, OpenStream, vars, loopback
  <2>2. CASE Refuse(c) \/ SetChan(c) \/ PassDone(c) \/ PassCancelled(c)
    BY <2>2 DEF Refuse, SetChan, PassDone, PassCancelled, loopback
  <2>3. CASE Pass(c) BY <2>3 DEF Pass, loopback
  <2>4. QED BY <1>2, <2>1, <2>2, <2>3 DEF Post, Stream
<1>3. QED BY <1>1, <1>2

\* Only a server that listens or shuts down has handlers at work.
HandlersKnown ==
  \A f \in Clicks : flow[f] \notin Listening \cup {"shutting"} => callbacks[f] = 0

\* ... and every step keeps it so.
LEMMA HandlersStep == Inv /\ HandlersKnown /\ [Next]_vars => HandlersKnown'
<1> SUFFICES ASSUME Inv, HandlersKnown, [Next]_vars PROVE HandlersKnown'
  OBVIOUS
<1> USE DEF HandlersKnown
<1>t. TypeOK BY DEF Inv
<1>1. ASSUME NEW c \in Clicks,
             \/ Click(c) \/ Leave(c) \/ OpenStream(c) \/ Post(c) \/ Stream(c)
             \/ UNCHANGED vars
      PROVE  HandlersKnown'
  <2>1. \A f \in Clicks : page[f] = "posted" => flow[f] = "none" BY DEF Inv, FlowStarted
  <2>2. QED BY <1>t, <1>1, <2>1, ElseKept DEF Listening
<1>2. ASSUME NEW c \in Clicks, CallbackBegins(c) \/ Callback(c) PROVE HandlersKnown'
  BY <1>t, <1>2, HandlerStep
<1>3. ASSUME NEW c \in Clicks, ShutDown(c) PROVE HandlersKnown'
  BY <1>t, <1>3 DEF ShutDown, Goto, TypeOK
<1>4. ASSUME NEW c \in Clicks, Flow(c), ~ShutDown(c) PROVE HandlersKnown'
  <2>1. flow[c] \in Listening \cup {"shutting"} => flow'[c] \in Listening \cup {"shutting"}
    BY <1>t, <1>4
    DEF Flow, CannotListen, OpenBrowser, AskUser, TakeCode, TakeRefusal, TimedOut,
        Exchange, ReportError, SaveAccount, ReportSuccess, Vacate, CloseChan, Goto,
        Listening, TypeOK
  <2>2. QED BY <1>t, <1>4, <2>1, FlowStep
<1>5. CASE UNCHANGED vars BY <1>5 DEF vars, loopback
<1>6. QED BY <1>1, <1>2, <1>3, <1>4, <1>5 DEF Next

\* No step gives a flow that has begun more to do, its own steps and the handlers it waits
\* for give it less.
LEMMA LeftStep ==
  ASSUME Inv, HandlersKnown, [Next]_vars, NEW f \in Clicks
  PROVE  /\ flow[f] # "none" => Left(f)' <= Left(f)
         /\ Flow(f) \/ (Callback(f) /\ flow[f] \notin Listening) => Left(f)' < Left(f)
<1>t. TypeOK BY DEF Inv
<1>1. /\ FlowLeft(f) \in Nat /\ Waited(f) \in Nat /\ Left(f) = FlowLeft(f) + Waited(f)
      /\ Left(f)' = FlowLeft(f)' + Waited(f)'
  BY <1>t, LeftTyped DEF Left
<1>2. ASSUME flow'[f] = flow[f], callbacks'[f] = callbacks[f]
      PROVE  FlowLeft(f)' = FlowLeft(f) /\ Waited(f)' = Waited(f)
  BY <1>2 DEF FlowLeft, Waited
<1>3. CASE Flow(f) BY <1>t, <1>1, <1>3, FlowStep
<1>4. CASE CallbackBegins(f) \/ Callback(f)
  <2>1. FlowLeft(f)' = FlowLeft(f) BY <1>t, <1>4, HandlerStep DEF FlowLeft
  <2>2. ~Flow(f)
    <3>1. FlowLeft(f) \in Nat /\ ~(FlowLeft(f)' < FlowLeft(f)) BY <1>1, <2>1
    <3>2. QED BY <1>t, <3>1, FlowStep
  <2>3. flow[f] # "new" \/ ~Callback(f)
    BY DEF HandlersKnown, Callback, CallbackReturns, Listening
  <2>4. QED BY <1>t, <1>1, <1>4, <2>1, <2>2, <2>3, HandlerStep
<1>5. CASE ~Flow(f) /\ ~CallbackBegins(f) /\ ~Callback(f) /\ flow[f] # "none"
  <2>1. ASSUME NEW c \in Clicks \ {f}, Flow(c) \/ CallbackBegins(c) \/ Callback(c)
        PROVE  flow'[f] = flow[f] /\ callbacks'[f] = callbacks[f]
    BY <1>t, <2>1, FlowStep, HandlerStep
  <2>2. ASSUME NEW c \in Clicks,
               Click(c) \/ Leave(c) \/ OpenStream(c) \/ Post(c) \/ Stream(c)
        PROVE  flow'[f] = flow[f] /\ callbacks'[f] = callbacks[f]
    <3>1. page[f] = "posted" => flow[f] = "none" BY DEF Inv, FlowStarted
    <3>2. /\ UNCHANGED callbacks
          /\ flow'[f] = flow[f] \/ page[f] = "posted"
      BY <1>t, <2>2, ElseKept
    <3>3. QED BY <1>5, <3>1, <3>2
  <2>3. flow'[f] = flow[f] /\ callbacks'[f] = callbacks[f]
    BY <1>5, <2>1, <2>2 DEF Next, vars, loopback
  <2>4. QED BY <1>1, <1>2, <1>5, <2>3
<1>6. QED BY <1>3, <1>4, <1>5

\* What is left is never more than that, and nothing only when the flow is over.
LEMMA AllBounded ==
  ASSUME Inv, HandlersKnown, NEW f \in Clicks
  PROVE  Bounded(f)
<1>1. /\ FlowLeft(f) \in 0..9 /\ Waited(f) \in 0..AtOnce
      /\ FlowLeft(f) = 0 <=> flow[f] \in {"none", "ended"}
      /\ Left(f) = FlowLeft(f) + Waited(f)
  BY LeftTyped DEF Inv
<1>2. flow[f] \in {"none", "ended"} => Waited(f) = 0
  BY DEF HandlersKnown, Waited, Listening
<1>3. QED BY <1>1, <1>2 DEF Bounded

\* Every flow, once begun, takes at most 9 steps and waits for at most AtOnce handlers;
\* then it is over, and no handler of its server is at work.
THEOREM FlowsComeToEnd == Spec => ComesToEnd
<1>1. Init => HandlersKnown BY DEF Init, HandlersKnown
<1>2. Spec => []HandlersKnown BY <1>1, HandlersStep, Invariance, PTL DEF Spec
<1>3. Inv /\ HandlersKnown /\ [Next]_vars =>
        [\A f \in Clicks :
           /\ Bounded(f)
           /\ flow[f] # "none" => Left(f)' <= Left(f)
           /\ Flow(f) \/ (Callback(f) /\ flow[f] \notin Listening) => Left(f)' < Left(f)
        ]_vars
  BY LeftStep, AllBounded
<1>4. QED BY <1>2, <1>3, Invariance, PTL DEF Spec, ComesToEnd

-----------------------------------------------------------------------------
(* Authorize implements Attempt.                                           *)

\* At first no attempt has begun.
LEMMA AttemptInitRefined == Init => Abstract!Init
<1> SUFFICES ASSUME Init PROVE Abstract!Init OBVIOUS
<1>1. attempt = [c \in Clicks |-> "none"] BY DEF Init, attempt
<1>2. QED BY <1>1 DEF Init, Abstract!Init

\* A step of one flow that leaves its attempt where it was is not seen.
LEMMA FlowUnseen ==
  ASSUME TypeOK, NEW f \in Clicks, NEW pc, flow' = [flow EXCEPT ![f] = pc],
         \/ {flow[f], pc} \subseteq {"new", "opened", "waiting", "exchanging", "shutting", "returned"}
         \/ {flow[f], pc} \subseteq {"saved", "leaving", "closing", "ended"} /\ verdict' = verdict,
         \A g \in Clicks \ {f} : verdict'[g] = verdict[g]
  PROVE  attempt' = attempt
<1>1. \A g \in Clicks : flow'[g] = IF g = f THEN pc ELSE flow[g] BY DEF TypeOK
<1>2. QED BY <1>1 DEF attempt

\* A step of one flow moves its attempt only.
LEMMA AttemptMoves ==
  ASSUME NEW f \in Clicks, NEW o, attempt'[f] = o,
         \A g \in Clicks \ {f} : flow'[g] = flow[g] /\ verdict'[g] = verdict[g]
  PROVE  attempt' = [attempt EXCEPT ![f] = o]
<1>1. \A g \in Clicks \ {f} : attempt'[g] = attempt[g] BY DEF attempt
<1>2. /\ attempt = [g \in Clicks |-> attempt[g]]
      /\ attempt' = [g \in Clicks |-> attempt'[g]]
  BY DEF attempt
<1>3. QED BY <1>1, <1>2

\* Only a flow that has an outcome has put it into its channel, so that a page is told
\* the outcome of an attempt; it is told one outcome.
LEMMA PassRefined ==
  ASSUME Inv, NEW c \in Clicks, Pass(c)
  PROVE  Abstract!Next \/ UNCHANGED <<attempt, account, seen>>
<1> DEFINE f == stream[c]
           m == Head(ch[f])
<1>1. f \in Clicks /\ m = ch[f][1] /\ 1 \in 1..Len(ch[f])
  BY Taken DEF Pass, Inv, TypeOK
<1>2. UNCHANGED <<attempt, account>> BY DEF Pass, attempt
<1>3. CASE m \in Outcomes /\ page[c] = "following" /\ here[c]
  <2>1. seen' = [seen EXCEPT ![c] = m] BY <1>3 DEF Pass
  <2>2. seen[c] = "nothing" BY <1>3 DEF Inv, NotTold
  <2>3. Reported(f) /\ m = verdict[f] BY <1>1, <1>3 DEF Inv, Content, Outcomes
  <2>4. attempt[f] = m BY <1>1, <2>3 DEF attempt, Reported
  <2>5. Abstract!Tell(c, m)
    BY <1>1, <1>2, <1>3, <2>1, <2>2, <2>4 DEF Abstract!Tell, Abstract!Outcomes, Outcomes
  <2>6. QED BY <1>3, <2>5 DEF Abstract!Next, Abstract!Outcomes, Outcomes
<1>4. CASE ~(m \in Outcomes /\ page[c] = "following" /\ here[c])
  <2>1. seen' = [seen EXCEPT ![c] = seen[c]] BY <1>4 DEF Pass
  <2>2. seen' = seen BY <2>1 DEF Inv, TypeOK
  <2>3. QED BY <1>2, <2>2
<1>5. QED BY <1>3, <1>4

\* The start of a flow begins its attempt, since no other is in flight.
LEMMA StartRefined ==
  ASSUME Inv, NEW c \in Clicks, StartAuthorize(c)
  PROVE  Abstract!Next
<1> USE DEF StartAuthorize
<1>1. flow[c] = "none" BY DEF Inv, FlowStarted
<1>2. attempt[c] = "none" BY <1>1 DEF attempt
<1>3. \A d \in Clicks : flow[d] \notin InFlight BY DEF Inv, OneInFlight, TypeOK
<1>4. \A d \in Clicks : attempt[d] # "running"
  BY <1>3 DEF attempt, InFlight, Listening, Inv, TypeOK, Outcomes
<1>5. \A d \in Clicks : flow'[d] = IF d = c THEN "new" ELSE flow[d] BY DEF Inv, TypeOK
<1>6. attempt' = [attempt EXCEPT ![c] = "running"]
  <2>1. attempt'[c] = "running" BY <1>5 DEF attempt
  <2>2. UNCHANGED verdict OBVIOUS
  <2>3. QED BY <1>5, <2>1, <2>2, AttemptMoves
<1>7. UNCHANGED <<account, seen>> OBVIOUS
<1>8. Abstract!Begin(c) BY <1>2, <1>4, <1>6, <1>7 DEF Abstract!Begin
<1>9. QED BY <1>8 DEF Abstract!Next

\* The account that is saved is the success of its attempt.
LEMMA SaveRefined ==
  ASSUME Inv, NEW f \in Clicks, SaveAccount(f)
  PROVE  Abstract!Next
<1> USE DEF SaveAccount, Goto
<1>1. attempt[f] = "running" BY DEF attempt
<1>2. \A d \in Clicks : flow'[d] = IF d = f THEN "saved" ELSE flow[d] BY DEF Inv, TypeOK
<1>3. attempt' = [attempt EXCEPT ![f] = "success"]
  <2>1. attempt'[f] = "success" BY <1>2 DEF attempt
  <2>2. UNCHANGED verdict OBVIOUS
  <2>3. QED BY <1>2, <2>1, <2>2, AttemptMoves
<1>4. account' = f /\ UNCHANGED seen BY DEF pages
<1>5. Abstract!Succeed(f) BY <1>1, <1>3, <1>4 DEF Abstract!Succeed
<1>6. QED BY <1>5 DEF Abstract!Next, Abstract!End

\* The error that is reported is the failure of its attempt.
LEMMA ErrorRefined ==
  ASSUME Inv, NEW f \in Clicks, ReportError(f)
  PROVE  Abstract!Next
<1> USE DEF ReportError, Goto
<1>1. attempt[f] = "running" BY DEF attempt
<1>2. \A d \in Clicks : flow'[d] = IF d = f THEN "leaving" ELSE flow[d] BY DEF Inv, TypeOK
<1>3. attempt' = [attempt EXCEPT ![f] = "error"]
  <2>1. attempt'[f] = "error" BY <1>2 DEF attempt
  <2>2. UNCHANGED verdict OBVIOUS
  <2>3. QED BY <1>2, <2>1, <2>2, AttemptMoves
<1>4. UNCHANGED <<account, seen>> BY DEF pages
<1>5. Abstract!Fail(f) BY <1>1, <1>3, <1>4 DEF Abstract!Fail
<1>6. QED BY <1>5 DEF Abstract!Next, Abstract!End

\* A step of Authorize is a step of the attempts, or none.
LEMMA AttemptStepRefined == Inv /\ [Next]_vars => [Abstract!Next]_Abstract!avars
<1> SUFFICES ASSUME Inv, [Next]_vars
             PROVE  Abstract!Next \/ UNCHANGED <<attempt, account, seen>>
  BY DEF Abstract!avars
<1>1. TypeOK BY DEF Inv
<1>2. UNCHANGED <<flow, verdict>> => UNCHANGED attempt BY DEF attempt
<1>3. ASSUME NEW c \in Clicks,
             Click(c) \/ Leave(c) \/ OpenStream(c) \/ CallbackBegins(c) \/ Refuse(c) \/ SetChan(c)
             \/ PassDone(c) \/ PassCancelled(c) \/ Callback(c)
      PROVE  UNCHANGED <<attempt, account, seen>>
  <2>1. UNCHANGED <<flow, verdict, account, seen>>
    BY <1>3 DEF Click, Leave, OpenStream, CallbackBegins, Refuse, SetChan, PassDone, PassCancelled,
                Callback, CallbackReturns, pages
  <2>2. QED BY <1>2, <2>1
<1>4. ASSUME NEW f \in Clicks, Flow(f), ~SaveAccount(f), ~ReportError(f)
      PROVE  UNCHANGED <<attempt, account, seen>>
  <2>1. UNCHANGED <<account, seen>>
    BY <1>4 DEF Flow, CannotListen, OpenBrowser, AskUser, TakeCode, TakeRefusal, TimedOut, Exchange,
                ShutDown, ReportSuccess, Vacate, CloseChan, pages
  <2>2. CASE \/ CannotListen(f) \/ OpenBrowser(f) \/ AskUser(f) \/ TakeCode(f) \/ TakeRefusal(f)
             \/ TimedOut(f) \/ (\E o \in Outcomes : Exchange(f, o)) \/ ShutDown(f)
    <3>1. \A g \in Clicks \ {f} : verdict'[g] = verdict[g]
      BY <1>1, <2>2 DEF CannotListen, OpenBrowser, AskUser, TakeCode, TakeRefusal, TimedOut, Exchange,
                        ShutDown, Decide, TypeOK
    <3>2. PICK pc \in {"opened", "waiting", "exchanging", "shutting", "returned"} :
            flow[f] \in {"new", "opened", "waiting", "exchanging", "shutting"} /\ Goto(f, pc)
      BY <2>2 DEF CannotListen, OpenBrowser, AskUser, TakeCode, TakeRefusal, TimedOut, Exchange, ShutDown
    <3>3. QED BY <1>1, <2>1, <3>1, <3>2, FlowUnseen DEF Goto
  <2>3. CASE ReportSuccess(f) \/ Vacate(f) \/ CloseChan(f)
    <3>1. verdict' = verdict BY <2>3 DEF ReportSuccess, Vacate, CloseChan
    <3>2. PICK pc \in {"leaving", "closing", "ended"} :
            flow[f] \in {"saved", "leaving", "closing"} /\ Goto(f, pc)
      BY <2>3 DEF ReportSuccess, Vacate, CloseChan
    <3>3. QED BY <1>1, <2>1, <3>1, <3>2, FlowUnseen DEF Goto
  <2>4. QED BY <1>4, <2>2, <2>3 DEF Flow
<1>5. CASE UNCHANGED vars
  BY <1>2, <1>5 DEF vars, pages
<1>6. QED
  BY <1>3, <1>4, <1>5, PassRefined, StartRefined, SaveRefined, ErrorRefined
  DEF Next, Post, Stream, Flow

\* Connect is a sequence of attempts, one at a time, each with one outcome that is
\* saved before it is told (main.go:245-288).
THEOREM AttemptsOneByOne == Spec => Abstract!Init /\ [][Abstract!Next]_Abstract!avars
<1>1. QED
  BY AttemptInitRefined, AttemptStepRefined, Invariance, PTL DEF Spec
=============================================================================
