----------------------------- MODULE UsbCdcProofs -----------------------------
(***************************************************************************)
(* The life of a handle, for any queue length, rates and number of         *)
(* devices: no write on a freed handle, no handle leaked, no live device   *)
(* closed; then what is shown as available, the report of a device that is *)
(* gone, and the rate.                                                     *)
(***************************************************************************)
EXTENDS UsbCdc, TLAPS

\* The handle and the tasks that have a hand on it.
HandleInv ==
    /\ opened \subseteq 1..plugs
    /\ s_cdc_dev # None => opened = {s_cdc_dev}
    /\ event.at = "open" => s_cdc_dev = None
    /\ event.at \in {"coding", "store"} =>
           s_cdc_dev = None /\ event.dev # None /\ opened = {event.dev}
    /\ s_cdc_dev = None /\ event.at \notin {"coding", "store"} => opened = {}
    /\ httpd.at = "tx" => httpd.dev # None /\ s_cdc_dev = httpd.dev

\* At most one disconnect is under way, that of the open handle.
IsDisconnect(i) == s_event_queue[i].id = "disconnected"
DisconnectInv ==
    /\ \A i \in 1..Len(s_event_queue) : IsDisconnect(i) =>
           /\ opened = {s_event_queue[i].dev}
           /\ s_event_queue[i].dev # attached
           /\ event.at # "close"
           /\ \A j \in 1..Len(s_event_queue) : IsDisconnect(j) => i = j
    /\ event.at = "close" => s_cdc_dev # None /\ s_cdc_dev # attached

IInv == TypeOK /\ HandleInv /\ DisconnectInv

-------------------------------------------------------------------------------
(* The queue                                                               *)

LEMMA PostKeepsType ==
    ASSUME TypeOK, HasRoom, NEW id \in {"connected", "disconnected"},
           NEW h \in Handle, Post(id, h)
    PROVE  /\ s_event_queue' \in Seq(Event) /\ Len(s_event_queue') <= Capacity
           /\ Len(s_event_queue') = Len(s_event_queue) + 1
           /\ \A i \in 1..Len(s_event_queue) : s_event_queue'[i] = s_event_queue[i]
           /\ s_event_queue'[Len(s_event_queue) + 1] = [id |-> id, dev |-> h]
<1>1. [id |-> id, dev |-> h] \in Event
  BY DEF Event
<1> QED BY <1>1, CapacityAssumption DEF TypeOK, HasRoom, Post

LEMMA ReceiveKeepsType ==
    ASSUME TypeOK, NEW id, Receive(id)
    PROVE  /\ s_event_queue' \in Seq(Event) /\ Len(s_event_queue') <= Capacity
           /\ Len(s_event_queue') = Len(s_event_queue) - 1
           /\ Len(s_event_queue) \in Nat \ {0}
           /\ Head(s_event_queue) = s_event_queue[1]
           /\ s_event_queue[1] \in Event
           /\ \A i \in 1..Len(s_event_queue') :
                  s_event_queue'[i] = s_event_queue[i + 1]
BY CapacityAssumption DEF TypeOK, Receive

-------------------------------------------------------------------------------
(* Types                                                                   *)

LEMMA InitIInv == Init => IInv
<1> SUFFICES ASSUME Init PROVE IInv
  OBVIOUS
<1>1. TypeOK
  <2>1. s_event_queue \in Seq(Event) /\ Len(s_event_queue) <= Capacity
    BY CapacityAssumption DEF Init
  <2>2. Idle \in TaskState
    BY DEF Idle, TaskState
  <2>3. NoRequest \in RequestState
    BY DEF NoRequest, RequestState
  <2>4. plugs \in 0..MaxPlugs /\ attached \in 0..plugs
    BY PlugsAssumption DEF Init, None
  <2> QED BY <2>1, <2>2, <2>3, <2>4 DEF Init, TypeOK
<1>2. HandleInv /\ DisconnectInv
  BY DEF Init, HandleInv, DisconnectInv, Idle, NoRequest
<1> QED BY <1>1, <1>2 DEF IInv

LEMMA SetLineType ==
    ASSUME TypeOK, NEW h \in Handle, NEW b \in Rates \cup {0}, SetLine(h, b)
    PROVE  rate' \in [Handle -> Rates \cup {0}] /\ untuned' \subseteq Handle
BY DEF TypeOK, SetLine

LEMMA HostType == TypeOK /\ Host => TypeOK'
<1> SUFFICES ASSUME TypeOK, Host PROVE TypeOK'
  OBVIOUS
<1>1. CASE new_dev_cb
  <2>1. plugs + 1 \in Handle /\ plugs' \in 0..MaxPlugs /\ attached' \in 0..plugs'
    BY <1>1, PlugsAssumption DEF new_dev_cb, TypeOK, Handle
  <2>2. s_event_queue' \in Seq(Event) /\ Len(s_event_queue') <= Capacity
        /\ unserved' \subseteq Handle
    <3>1. CASE HasRoom /\ Post("connected", plugs + 1) /\ UNCHANGED unserved
      BY <2>1, <3>1, PostKeepsType DEF TypeOK
    <3>2. CASE unserved' = unserved \cup {plugs + 1} /\ UNCHANGED s_event_queue
      BY <2>1, <3>2 DEF TypeOK
    <3> QED BY <1>1, <3>1, <3>2 DEF new_dev_cb
  <2> QED BY <1>1, <2>1, <2>2 DEF new_dev_cb, TypeOK, handleVars, rateVars
<1>2. CASE handle_event
  <2>1. plugs' \in 0..MaxPlugs /\ attached' \in 0..plugs'
    BY <1>2, PlugsAssumption DEF handle_event, TypeOK, None
  <2>2. s_event_queue' \in Seq(Event) /\ Len(s_event_queue') <= Capacity
        /\ lost' \subseteq Handle
    <3>1. CASE UNCHANGED <<s_event_queue, lost>>
      BY <3>1 DEF TypeOK
    <3>2. CASE attached \in opened /\ HasRoom
               /\ Post("disconnected", attached) /\ UNCHANGED lost
      BY <3>2, PostKeepsType DEF TypeOK
    <3>3. CASE attached \in opened /\ lost' = lost \cup {attached}
               /\ UNCHANGED s_event_queue
      BY <3>3 DEF TypeOK
    <3> QED BY <1>2, <3>1, <3>2, <3>3 DEF handle_event
  <2> QED BY <1>2, <2>1, <2>2 DEF handle_event, TypeOK, handleVars, rateVars
<1> QED BY <1>1, <1>2 DEF Host

LEMMA TaskType == TypeOK /\ HandleInv /\ usb_event_task => TypeOK'
<1> SUFFICES ASSUME TypeOK, HandleInv, usb_event_task PROVE TypeOK'
  OBVIOUS
<1>1. ASSUME NEW id, Receive(id), event' \in {Idle,
                 [Idle EXCEPT !.at = "open", !.msg = Head(s_event_queue).dev],
                 [Idle EXCEPT !.at = "close"]}
      PROVE  TypeOK'
  <2>1. /\ s_event_queue' \in Seq(Event) /\ Len(s_event_queue') <= Capacity
        /\ Head(s_event_queue).dev \in Handle
    BY <1>1, ReceiveKeepsType DEF Event
  <2>2. event' \in TaskState
    <3>1. \A h \in Handle :
              [Idle EXCEPT !.at = "open", !.msg = h] \in TaskState
      BY DEF Idle, TaskState
    <3>2. Idle \in TaskState /\ [Idle EXCEPT !.at = "close"] \in TaskState
      BY DEF Idle, TaskState
    <3> QED BY <1>1, <2>1, <3>1, <3>2
  <2> QED BY <1>1, <2>1, <2>2 DEF Receive, TypeOK, handleVars, rateVars
<1>2. CASE ReceiveConnected
  BY <1>1, <1>2 DEF ReceiveConnected
<1>3. CASE ReceiveDisconnected
  BY <1>1, <1>3 DEF ReceiveDisconnected
<1>4. CASE OpenDevice
  <2>1. attached \in Handle
    BY <1>4, PlugsAssumption DEF OpenDevice, TypeOK, None, Handle
  <2> QED BY <1>4, <2>1 DEF OpenDevice, TypeOK, TaskState, queueVars, rateVars
<1>5. CASE OpenFails
  <2>1. unserved' \subseteq Handle
    <3>1. attached \in Handle \cup {None} /\ event.msg \in Handle \cup {None}
      BY PlugsAssumption DEF TypeOK, TaskState, None, Handle
    <3> QED BY <1>5, <3>1 DEF OpenFails, TypeOK
  <2>2. event' \in TaskState
    BY <1>5 DEF OpenFails, Idle, TaskState
  <2> QED BY <1>5, <2>1, <2>2
          DEF OpenFails, TypeOK, queueVars, handleVars, rateVars
<1>6. CASE SetCoding
  <2>1. event.dev \in Handle /\ event.baud \in Rates \cup {0}
    BY <1>6 DEF SetCoding, HandleInv, TypeOK, TaskState
  <2>2. rate' \in [Handle -> Rates \cup {0}] /\ untuned' \subseteq Handle
    BY <1>6, <2>1, SetLineType DEF SetCoding
  <2> QED BY <1>6, <2>2 DEF SetCoding, TypeOK, TaskState, queueVars, handleVars
<1>7. CASE Store
  BY <1>7 DEF Store, TypeOK, TaskState, queueVars, rateVars
<1>8. CASE Close
  BY <1>8 DEF Close, TypeOK, TaskState, queueVars, rateVars
<1>9. CASE AnnounceUp \/ AnnounceDown
  <2>1. event' \in TaskState
    BY <1>9 DEF AnnounceUp, AnnounceDown, Idle, TaskState
  <2> QED BY <1>9, <2>1 DEF AnnounceUp, AnnounceDown, TypeOK, queueVars, rateVars
<1> QED BY <1>2, <1>3, <1>4, <1>5, <1>6, <1>7, <1>8, <1>9 DEF usb_event_task

LEMMA RequestType ==
    ASSUME TypeOK, HandleInv,
           StartSend \/ (\E r \in Rates : ChangeRate(r)) \/ Finish
    PROVE  TypeOK'
<1>1. CASE StartSend \/ EndSend
  <2>1. httpd' \in RequestState
    <3>1. \A h \in Handle \cup {None} :
              [NoRequest EXCEPT !.at = "tx", !.dev = h] \in RequestState
      BY DEF NoRequest, RequestState
    <3>2. NoRequest \in RequestState
      BY DEF NoRequest, RequestState
    <3> QED BY <1>1, <3>1, <3>2 DEF StartSend, EndSend, TypeOK
  <2> QED BY <1>1, <2>1
          DEF StartSend, EndSend, TypeOK, queueVars, handleVars, rateVars
<1>2. ASSUME NEW r \in Rates, ChangeRate(r) PROVE TypeOK'
  <2>1. httpd' \in RequestState
    BY <1>2 DEF ChangeRate, NoRequest, RequestState
  <2> QED BY <1>2, <2>1 DEF ChangeRate, TypeOK, queueVars, handleVars
<1>3. CASE ApplyRate
  <2>1. httpd' \in RequestState
    BY <1>3 DEF ApplyRate, NoRequest, RequestState
  <2>2. /\ rate' \in [Handle -> Rates \cup {0}]
        /\ untuned' \subseteq Handle /\ late' \subseteq Handle
    <3>1. CASE s_cdc_dev # None /\ SetLine(s_cdc_dev, httpd.baud) /\ UNCHANGED late
      <4>1. s_cdc_dev \in Handle /\ httpd.baud \in Rates \cup {0}
        BY <3>1 DEF TypeOK, RequestState
      <4> QED BY <3>1, <4>1, SetLineType DEF TypeOK
    <3>2. CASE s_cdc_dev = None
      <4>1. event.at \in {"coding", "store"} => event.dev \in Handle
        BY DEF HandleInv, TypeOK, TaskState
      <4> QED BY <1>3, <3>2, <4>1 DEF ApplyRate, TypeOK
    <3> QED BY <1>3, <3>1, <3>2 DEF ApplyRate
  <2> QED BY <1>3, <2>1, <2>2 DEF ApplyRate, TypeOK, queueVars, handleVars
<1> QED BY <1>1, <1>2, <1>3 DEF Finish

LEMMA TypeStep == IInv /\ [Next]_vars => TypeOK'
<1> SUFFICES ASSUME IInv, [Next]_vars PROVE TypeOK'
  OBVIOUS
<1>1. CASE UNCHANGED vars
  BY <1>1 DEF IInv, TypeOK, vars, queueVars, handleVars, rateVars
<1> QED BY <1>1, HostType, TaskType, RequestType DEF Next, IInv

-------------------------------------------------------------------------------
(* The handle                                                              *)

LEMMA HandleStep == IInv /\ [Next]_vars => HandleInv'
<1> SUFFICES ASSUME IInv, [Next]_vars PROVE HandleInv'
  OBVIOUS
<1> USE DEF IInv, HandleInv, queueVars, handleVars, rateVars
<1>0. /\ plugs \in Nat /\ attached \in 0..plugs
      /\ event.at \in {"idle", "open", "coding", "store", "up", "close", "down"}
      /\ event \in TaskState /\ httpd \in RequestState
      /\ s_cdc_dev \in Handle \cup {None}
  BY DEF TypeOK, TaskState
<1>1. CASE Host
  <2>1. 1..plugs \subseteq 1..plugs'
    BY <1>0, <1>1 DEF Host, new_dev_cb, handle_event
  <2>2. UNCHANGED <<opened, s_cdc_dev, event, httpd>>
    BY <1>1 DEF Host, new_dev_cb, handle_event
  <2> QED BY <2>1, <2>2
<1>2. CASE ReceiveConnected
  <2>1. event' = Idle \/ (s_cdc_dev = None /\ event'.at = "open")
    BY <1>2 DEF ReceiveConnected, Idle
  <2>2. Idle.at = "idle" /\ event.at = "idle"
    BY <1>2 DEF ReceiveConnected, Receive, Idle
  <2> QED BY <1>2, <2>1, <2>2 DEF ReceiveConnected, Receive
<1>3. CASE OpenDevice
  <2>1. /\ event'.at = "coding" /\ event'.dev = attached /\ attached \in 1..plugs
        /\ opened' = {attached} /\ s_cdc_dev' = None /\ httpd.at # "tx"
    BY <1>0, <1>3 DEF OpenDevice, TaskState, None
  <2> QED BY <1>3, <2>1 DEF OpenDevice
<1>4. CASE OpenFails
  BY <1>4 DEF OpenFails, Idle
<1>5. CASE SetCoding
  <2>1. event'.at = "store" /\ event'.dev = event.dev
    BY <1>0, <1>5 DEF SetCoding, TaskState
  <2> QED BY <1>5, <2>1 DEF SetCoding
<1>6. CASE Store
  <2>1. event'.at = "up" /\ s_cdc_dev' = event.dev /\ httpd'.at # "tx"
    BY <1>0, <1>6 DEF Store, MutexFree, TaskState
  <2> QED BY <1>6, <2>1 DEF Store
<1>7. CASE AnnounceUp \/ AnnounceDown
  <2>1. event.at \in {"up", "down"} /\ event'.at = "idle"
    BY <1>7 DEF AnnounceUp, AnnounceDown, Idle
  <2>2. UNCHANGED <<plugs, opened, s_cdc_dev, httpd>>
    BY <1>7 DEF AnnounceUp, AnnounceDown
  <2> QED BY <2>1, <2>2
<1>8. CASE ReceiveDisconnected
  <2>1. event.at = "idle" /\ event'.at = "close"
    BY <1>8 DEF ReceiveDisconnected, Receive, Idle
  <2>2. UNCHANGED <<plugs, opened, s_cdc_dev, httpd>>
    BY <1>8 DEF ReceiveDisconnected, Receive
  <2> QED BY <2>1, <2>2
<1>9. CASE Close
  <2>1. event'.at = "down" /\ opened' = {} /\ httpd'.at # "tx"
    BY <1>0, <1>9 DEF Close, MutexFree, TaskState
  <2> QED BY <1>9, <2>1 DEF Close
<1>10. CASE StartSend
  <2>1. httpd'.dev = s_cdc_dev
    BY <1>10 DEF StartSend, NoRequest
  <2> QED BY <1>10, <2>1 DEF StartSend
<1>11. CASE Finish \/ \E r \in Rates : ChangeRate(r)
  <2>1. httpd'.at # "tx"
    <3>1. NoRequest.at # "tx"
          /\ \A r \in Rates : [NoRequest EXCEPT !.at = "baud", !.baud = r].at # "tx"
      BY DEF NoRequest
    <3> QED BY <1>11, <3>1 DEF Finish, EndSend, ApplyRate, ChangeRate
  <2>2. UNCHANGED <<plugs, opened, s_cdc_dev, event>>
    BY <1>11 DEF Finish, EndSend, ApplyRate, ChangeRate
  <2> QED BY <2>1, <2>2
<1>12. CASE UNCHANGED vars
  BY <1>12 DEF vars
<1> QED BY <1>1, <1>2, <1>3, <1>4, <1>5, <1>6, <1>7, <1>8, <1>9, <1>10, <1>11,
           <1>12 DEF Next, usb_event_task

-------------------------------------------------------------------------------
(* The disconnect                                                          *)

LEMMA QueueGrows ==
    ASSUME IInv, HasRoom, NEW id \in {"connected", "disconnected"},
           NEW h \in Handle, Post(id, h), UNCHANGED <<opened, event, s_cdc_dev>>,
           id = "disconnected" => opened = {h} /\ h = attached /\ h # attached',
           \A g \in opened : g # attached => g # attached'
    PROVE  DisconnectInv'
<1>1. /\ Len(s_event_queue) \in Nat /\ Len(s_event_queue') = Len(s_event_queue) + 1
      /\ \A i \in 1..Len(s_event_queue) : s_event_queue'[i] = s_event_queue[i]
      /\ s_event_queue'[Len(s_event_queue) + 1] = [id |-> id, dev |-> h]
  BY PostKeepsType DEF IInv, TypeOK
<1>2. id = "disconnected" =>
          \A i \in 1..Len(s_event_queue) : ~ IsDisconnect(i)
  BY DEF IInv, DisconnectInv
<1>3. id = "disconnected" => event.at # "close"
  BY DEF IInv, DisconnectInv, HandleInv
<1>4. event.at = "close" => s_cdc_dev # None /\ s_cdc_dev # attached'
  BY DEF IInv, DisconnectInv, HandleInv
<1>5. ASSUME NEW i \in 1..Len(s_event_queue'), IsDisconnect(i)'
      PROVE  /\ opened' = {s_event_queue'[i].dev}
             /\ s_event_queue'[i].dev # attached'
             /\ event'.at # "close"
             /\ \A j \in 1..Len(s_event_queue') : IsDisconnect(j)' => i = j
  <2>1. CASE i = Len(s_event_queue) + 1
    <3>1. id = "disconnected"
      BY <1>1, <1>5, <2>1 DEF IsDisconnect
    <3>2. ASSUME NEW j \in 1..Len(s_event_queue'), IsDisconnect(j)' PROVE i = j
      BY <1>1, <1>2, <2>1, <3>1, <3>2 DEF IsDisconnect
    <3> QED BY <1>1, <1>3, <2>1, <3>1, <3>2
  <2>2. CASE i \in 1..Len(s_event_queue)
    <3>1. IsDisconnect(i) /\ s_event_queue'[i] = s_event_queue[i]
      BY <1>1, <1>5, <2>2 DEF IsDisconnect
    <3>2. id # "disconnected"
      BY <1>2, <2>2, <3>1
    <3>3. /\ opened = {s_event_queue[i].dev} /\ s_event_queue[i].dev # attached
          /\ event.at # "close"
          /\ \A j \in 1..Len(s_event_queue) : IsDisconnect(j) => i = j
      BY <2>2, <3>1 DEF IInv, DisconnectInv
    <3>4. ASSUME NEW j \in 1..Len(s_event_queue'), IsDisconnect(j)' PROVE i = j
      BY <1>1, <3>2, <3>3, <3>4 DEF IsDisconnect
    <3> QED BY <3>1, <3>3, <3>4
  <2> QED BY <1>1, <2>1, <2>2
<1> QED BY <1>4, <1>5 DEF DisconnectInv

LEMMA QueueKept ==
    ASSUME IInv, UNCHANGED <<s_event_queue, opened>>,
           \A g \in opened : g # attached => g # attached',
           event'.at = "close" => event.at = "close" /\ UNCHANGED s_cdc_dev
    PROVE  DisconnectInv'
BY DEF IInv, DisconnectInv, IsDisconnect, HandleInv

LEMMA DisconnectStep == IInv /\ [Next]_vars => DisconnectInv'
<1> SUFFICES ASSUME IInv, [Next]_vars PROVE DisconnectInv'
  OBVIOUS
<1> USE DEF queueVars, handleVars, rateVars
<1>0. opened \subseteq 1..plugs /\ plugs \in Nat /\ attached \in 0..plugs
      /\ event \in TaskState
  BY DEF IInv, HandleInv, TypeOK
<1>1. CASE new_dev_cb
  <2>1. plugs + 1 \in Handle /\ \A g \in opened : g # attached'
    BY <1>0, <1>1, PlugsAssumption DEF new_dev_cb, Handle
  <2>2. CASE HasRoom /\ Post("connected", plugs + 1)
    BY <1>1, <2>1, <2>2, QueueGrows DEF new_dev_cb
  <2>3. CASE UNCHANGED s_event_queue
    BY <1>1, <2>1, <2>3, QueueKept DEF new_dev_cb
  <2> QED BY <1>1, <2>2, <2>3 DEF new_dev_cb
<1>2. CASE handle_event
  <2>1. /\ attached # attached' /\ \A g \in opened : g # attached'
        /\ UNCHANGED <<opened, event, s_cdc_dev>>
    BY <1>0, <1>2 DEF handle_event, None
  <2>2. CASE attached \in opened /\ HasRoom /\ Post("disconnected", attached)
    <3>1. opened = {attached} /\ attached \in Handle
      BY <2>2 DEF IInv, HandleInv, TypeOK
    <3> QED BY <2>1, <2>2, <3>1, QueueGrows
  <2>3. CASE UNCHANGED s_event_queue
    BY <2>1, <2>3, QueueKept
  <2> QED BY <1>2, <2>2, <2>3 DEF handle_event
<1>3. ASSUME NEW id, Receive(id),
             event'.at = "close" => id = "disconnected" /\ UNCHANGED s_cdc_dev
      PROVE  DisconnectInv'
  <2>1. /\ Len(s_event_queue') = Len(s_event_queue) - 1
        /\ Len(s_event_queue) \in Nat \ {0}
        /\ s_event_queue[1].id = id
        /\ \A i \in 1..Len(s_event_queue') :
               s_event_queue'[i] = s_event_queue[i + 1]
    BY <1>3, ReceiveKeepsType DEF IInv, Receive
  <2>2. UNCHANGED <<opened, attached, s_cdc_dev>>
    BY <1>3 DEF Receive
  <2>3. id = "disconnected" =>
            /\ opened # {} /\ attached \notin opened
            /\ \A j \in 2..Len(s_event_queue) : ~ IsDisconnect(j)
    <3>1. 1 \in 1..Len(s_event_queue) /\ 2..Len(s_event_queue) \subseteq 1..Len(s_event_queue)
      BY <2>1
    <3> SUFFICES ASSUME id = "disconnected"
                 PROVE  /\ opened # {} /\ attached \notin opened
                        /\ \A j \in 2..Len(s_event_queue) : ~ IsDisconnect(j)
      OBVIOUS
    <3>2. IsDisconnect(1)
      BY <2>1 DEF IsDisconnect
    <3>3. /\ opened = {s_event_queue[1].dev} /\ s_event_queue[1].dev # attached
          /\ \A j \in 1..Len(s_event_queue) : IsDisconnect(j) => 1 = j
      BY <3>1, <3>2 DEF IInv, DisconnectInv
    <3>4. ASSUME NEW j \in 2..Len(s_event_queue) PROVE ~ IsDisconnect(j)
      BY <2>1, <3>1, <3>3
    <3> QED BY <3>3, <3>4
  <2>4. event'.at = "close" => s_cdc_dev' # None /\ s_cdc_dev' # attached'
    BY <1>3, <2>2, <2>3 DEF IInv, HandleInv, Receive
  <2>5. ASSUME NEW i \in 1..Len(s_event_queue'), IsDisconnect(i)'
        PROVE  /\ opened' = {s_event_queue'[i].dev}
               /\ s_event_queue'[i].dev # attached'
               /\ event'.at # "close"
               /\ \A j \in 1..Len(s_event_queue') : IsDisconnect(j)' => i = j
    <3>1. i + 1 \in 2..Len(s_event_queue) /\ s_event_queue'[i] = s_event_queue[i + 1]
      BY <2>1
    <3>2. IsDisconnect(i + 1)
      BY <2>5, <3>1 DEF IsDisconnect
    <3>3. id # "disconnected"
      BY <2>3, <3>1, <3>2
    <3>4. /\ opened = {s_event_queue[i + 1].dev} /\ s_event_queue[i + 1].dev # attached
          /\ \A j \in 1..Len(s_event_queue) : IsDisconnect(j) => i + 1 = j
      BY <3>1, <3>2, <2>1 DEF IInv, DisconnectInv
    <3>5. ASSUME NEW j \in 1..Len(s_event_queue'), IsDisconnect(j)' PROVE i = j
      <4>1. j + 1 \in 1..Len(s_event_queue) /\ IsDisconnect(j + 1)
        BY <2>1, <3>5 DEF IsDisconnect
      <4> QED BY <3>4, <4>1
    <3> QED BY <1>3, <2>2, <3>1, <3>3, <3>4, <3>5
  <2> QED BY <2>4, <2>5 DEF DisconnectInv
<1>4. CASE ReceiveConnected
  <2>1. event'.at # "close"
    BY <1>4 DEF ReceiveConnected, Idle
  <2> QED BY <1>3, <1>4, <2>1 DEF ReceiveConnected
<1>5. CASE ReceiveDisconnected
  BY <1>3, <1>5 DEF ReceiveDisconnected, Receive
<1>6. CASE OpenDevice
  <2>1. opened = {} /\ event'.at # "close"
    BY <1>0, <1>6 DEF OpenDevice, TaskState, IInv, HandleInv
  <2>2. \A i \in 1..Len(s_event_queue) : ~ IsDisconnect(i)
    BY <2>1 DEF IInv, DisconnectInv
  <2> QED BY <1>6, <2>1, <2>2 DEF OpenDevice, DisconnectInv, IsDisconnect
<1>7. CASE OpenFails \/ SetCoding \/ Store \/ AnnounceUp \/ AnnounceDown
  <2>1. event'.at # "close"
    <3>1. CASE OpenFails \/ AnnounceUp \/ AnnounceDown
      BY <3>1 DEF OpenFails, AnnounceUp, AnnounceDown, Idle
    <3>2. CASE SetCoding \/ Store
      BY <1>0, <3>2 DEF SetCoding, Store, TaskState
    <3> QED BY <1>7, <3>1, <3>2
  <2>2. UNCHANGED <<s_event_queue, opened, attached>>
    BY <1>7 DEF OpenFails, SetCoding, Store, AnnounceUp, AnnounceDown
  <2> QED BY <2>1, <2>2, QueueKept
<1>8. CASE Close
  <2>1. event'.at # "close" /\ \A i \in 1..Len(s_event_queue) : ~ IsDisconnect(i)
    BY <1>0, <1>8 DEF Close, TaskState, IInv, DisconnectInv
  <2> QED BY <1>8, <2>1 DEF Close, DisconnectInv, IsDisconnect
<1>9. CASE StartSend \/ (\E r \in Rates : ChangeRate(r)) \/ Finish \/ UNCHANGED vars
  <2>1. UNCHANGED <<s_event_queue, opened, attached, event, s_cdc_dev>>
    BY <1>9 DEF StartSend, ChangeRate, Finish, EndSend, ApplyRate, vars
  <2> QED BY <2>1, QueueKept
<1> QED BY <1>1, <1>2, <1>4, <1>5, <1>6, <1>7, <1>8, <1>9
        DEF Next, Host, usb_event_task

-------------------------------------------------------------------------------
(* Results                                                                 *)

THEOREM HandleInvariant == Spec => []IInv
<1>1. IInv /\ [Next]_vars => IInv'
  BY TypeStep, HandleStep, DisconnectStep DEF IInv
<1> QED BY <1>1, InitIInv, PTL DEF Spec

\* Types, for any queue length, rates and number of devices.
THEOREM TypeCorrect == Spec => []TypeOK
BY HandleInvariant, PTL DEF IInv

\* usb_cdc_send never writes to a freed handle: while it writes, the handle it
\* took is s_cdc_dev, and s_cdc_dev is open.
THEOREM WritesAreSafe == Spec => []WriteHasHandle
<1>1. IInv => WriteHasHandle
  BY DEF IInv, HandleInv, WriteHasHandle
<1> QED BY <1>1, HandleInvariant, PTL

\* The bridge never forgets a handle that it has not closed.
THEOREM HandlesAreKept == Spec => []NoHandleLeak
<1>1. IInv => NoHandleLeak
  BY DEF IInv, HandleInv, NoHandleLeak, OpenInEventTask
<1> QED BY <1>1, HandleInvariant, PTL

\* What a disconnect closes is the handle of the device that is gone, though it
\* names none: at most one is under way, and only while that handle is open.
THEOREM OnlyGoneIsClosed == Spec => NeverClosesLive
<1>1. IInv /\ [Next]_vars => [\A h \in opened \ opened' : h # attached]_vars
  <2> SUFFICES ASSUME IInv, Next, NEW h \in opened \ opened'
               PROVE  h # attached
    OBVIOUS
  <2>1. CASE Close
    BY <2>1 DEF Close, IInv, HandleInv, DisconnectInv
  <2>2. CASE OpenDevice
    BY <2>2 DEF OpenDevice
  <2>3. CASE UNCHANGED opened
    BY <2>3
  <2> QED BY <2>1, <2>2, <2>3
          DEF Next, Host, new_dev_cb, handle_event, usb_event_task,
              ReceiveConnected, ReceiveDisconnected, Receive, OpenFails,
              SetCoding, Store, AnnounceUp, AnnounceDown, StartSend, ChangeRate,
              Finish, EndSend, ApplyRate, queueVars, handleVars, rateVars
<1> QED BY <1>1, HandleInvariant, PTL DEF Spec, NeverClosesLive

-------------------------------------------------------------------------------
(* What the browsers are shown                                             *)

\* available follows s_cdc_dev: it lags only between a change of the handle
\* and the announcement of that change.
AvailableInv ==
    /\ event.at \in {"idle", "close"} => (available <=> s_cdc_dev # None)
    /\ event.at \in {"open", "coding", "store", "up"} => ~available
    /\ event.at = "up" => s_cdc_dev # None
    /\ event.at = "down" => s_cdc_dev = None

LEMMA AvailableStep == IInv /\ AvailableInv /\ [Next]_vars => AvailableInv'
<1> SUFFICES ASSUME IInv, AvailableInv, [Next]_vars PROVE AvailableInv'
  OBVIOUS
<1> USE DEF AvailableInv, queueVars, handleVars, rateVars
<1>0. event \in TaskState
  BY DEF IInv, TypeOK
<1>1. CASE ReceiveConnected \/ ReceiveDisconnected
  <2>1. /\ event.at = "idle" /\ event'.at \in {"idle", "open", "close"}
        /\ event'.at = "open" => s_cdc_dev = None
    <3>1. /\ Idle.at = "idle" /\ [Idle EXCEPT !.at = "close"].at = "close"
          /\ \A m : [Idle EXCEPT !.at = "open", !.msg = m].at = "open"
      BY DEF Idle
    <3>2. event.at = "idle"
      BY <1>1 DEF ReceiveConnected, ReceiveDisconnected, Receive
    <3>3. CASE ReceiveConnected
      BY <3>1, <3>2, <3>3 DEF ReceiveConnected
    <3>4. CASE ReceiveDisconnected
      BY <3>1, <3>2, <3>4 DEF ReceiveDisconnected
    <3> QED BY <1>1, <3>3, <3>4
  <2>2. UNCHANGED <<s_cdc_dev, available>>
    BY <1>1 DEF ReceiveConnected, ReceiveDisconnected, Receive
  <2> QED BY <2>1, <2>2
<1>2. CASE OpenDevice \/ SetCoding
  <2>1. /\ event.at \in {"open", "coding"} /\ event'.at \in {"coding", "store"}
        /\ UNCHANGED <<s_cdc_dev, available>>
    BY <1>0, <1>2 DEF OpenDevice, SetCoding, TaskState
  <2> QED BY <2>1
<1>3. CASE OpenFails
  <2>1. s_cdc_dev = None /\ ~available /\ event'.at = "idle"
    BY <1>3 DEF OpenFails, Idle, IInv, HandleInv
  <2> QED BY <1>3, <2>1 DEF OpenFails
<1>4. CASE Store
  <2>1. event.at = "store" /\ event'.at = "up" /\ s_cdc_dev' # None
    BY <1>0, <1>4 DEF Store, IInv, HandleInv, TaskState
  <2> QED BY <1>4, <2>1 DEF Store
<1>5. CASE AnnounceUp
  <2>1. event.at = "up" /\ event'.at = "idle" /\ available'
    BY <1>5 DEF AnnounceUp, Idle
  <2> QED BY <1>5, <2>1 DEF AnnounceUp
<1>6. CASE Close
  <2>1. event'.at = "down" /\ s_cdc_dev' = None
    BY <1>0, <1>6 DEF Close, TaskState
  <2> QED BY <2>1
<1>7. CASE AnnounceDown
  <2>1. event.at = "down" /\ event'.at = "idle" /\ ~available'
    BY <1>7 DEF AnnounceDown, Idle
  <2> QED BY <1>7, <2>1 DEF AnnounceDown
<1>8. CASE UNCHANGED <<event, s_cdc_dev, available>>
  BY <1>8
<1> QED BY <1>1, <1>2, <1>3, <1>4, <1>5, <1>6, <1>7, <1>8
        DEF Next, Host, new_dev_cb, handle_event, usb_event_task, StartSend,
            ChangeRate, Finish, EndSend, ApplyRate, vars

\* serial_port_t.available is s_cdc_dev # NULL whenever the event task waits.
THEOREM AvailableIsTrue == Spec => []AvailableIsOpen
<1>1. Init => AvailableInv
  BY DEF Init, AvailableInv, Idle
<1>2. AvailableInv => AvailableIsOpen
  BY DEF AvailableInv, AvailableIsOpen
<1> QED BY <1>1, <1>2, AvailableStep, HandleInvariant, PTL DEF Spec

-------------------------------------------------------------------------------
(* The device that is gone                                                 *)

\* A disconnect that waits keeps waiting when something is posted after it.
LEMMA PostKeepsPending ==
    ASSUME IInv, HasRoom, NEW id \in {"connected", "disconnected"},
           NEW h \in Handle, Post(id, h), UNCHANGED event,
           NEW g, DisconnectPending(g)
    PROVE  DisconnectPending(g)'
<1>1. /\ Len(s_event_queue) \in Nat /\ Len(s_event_queue') = Len(s_event_queue) + 1
      /\ \A i \in 1..Len(s_event_queue) : s_event_queue'[i] = s_event_queue[i]
      /\ s_event_queue' \in Seq(Event)
  <2>1. TypeOK /\ Len(s_event_queue) \in Nat
    BY DEF IInv, TypeOK
  <2> QED BY <2>1, PostKeepsType
<1>2. CASE event.at = "close"
  BY <1>2 DEF DisconnectPending
<1>3. CASE \E i \in DOMAIN s_event_queue : s_event_queue[i] = Disconnect(g)
  <2>1. PICK i \in 1..Len(s_event_queue) : s_event_queue[i] = Disconnect(g)
    BY <1>3 DEF IInv, TypeOK
  <2>2. i \in DOMAIN s_event_queue' /\ s_event_queue'[i] = Disconnect(g)
    BY <1>1, <2>1
  <2> QED BY <2>2 DEF DisconnectPending, Disconnect
<1> QED BY <1>2, <1>3 DEF DisconnectPending

\* Taking a connect from the queue leaves the disconnects that wait in it.
LEMMA ReceiveKeepsPending ==
    ASSUME IInv, ReceiveConnected, NEW g, DisconnectPending(g)
    PROVE  DisconnectPending(g)'
<1>1. /\ event.at = "idle" /\ Receive("connected")
      /\ Head(s_event_queue).id = "connected"
  BY DEF ReceiveConnected, Receive
<1>2. PICK i \in 1..Len(s_event_queue) : s_event_queue[i] = Disconnect(g)
  BY <1>1 DEF DisconnectPending, IInv, TypeOK
<1>3. /\ Len(s_event_queue') = Len(s_event_queue) - 1
      /\ Len(s_event_queue) \in Nat \ {0}
      /\ Head(s_event_queue) = s_event_queue[1]
      /\ s_event_queue' \in Seq(Event)
      /\ \A k \in 1..Len(s_event_queue') : s_event_queue'[k] = s_event_queue[k + 1]
  BY <1>1, ReceiveKeepsType DEF IInv
<1>4. i # 1
  BY <1>1, <1>2, <1>3 DEF Disconnect
<1>5. i - 1 \in DOMAIN s_event_queue' /\ s_event_queue'[i - 1] = Disconnect(g)
  BY <1>2, <1>3, <1>4
<1> QED BY <1>5 DEF DisconnectPending, Disconnect

LEMMA ReportStep == IInv /\ GoneIsReported /\ [Next]_vars => GoneIsReported'
<1> SUFFICES ASSUME IInv, GoneIsReported, [Next]_vars, NEW h \in opened',
                    h # attached', h \notin lost'
             PROVE  DisconnectPending(h)'
  BY DEF GoneIsReported
<1> USE DEF queueVars, handleVars, rateVars
<1>0. /\ plugs \in Nat /\ event \in TaskState /\ opened \subseteq 1..plugs
      /\ attached \in 0..plugs /\ opened \subseteq Handle
  BY DEF IInv, TypeOK, HandleInv
<1>1. CASE new_dev_cb
  <2>1. /\ h \in opened /\ attached = None /\ h # attached /\ h \notin lost
        /\ UNCHANGED event
    BY <1>0, <1>1 DEF new_dev_cb, None
  <2>2. DisconnectPending(h)
    BY <2>1 DEF GoneIsReported
  <2>3. CASE HasRoom /\ Post("connected", plugs + 1)
    <3>1. plugs + 1 \in Handle
      BY <1>0, <1>1, PlugsAssumption DEF new_dev_cb, Handle
    <3> QED BY <2>1, <2>2, <2>3, <3>1, PostKeepsPending
  <2>4. CASE UNCHANGED s_event_queue
    BY <2>1, <2>2, <2>4 DEF DisconnectPending
  <2> QED BY <1>1, <2>3, <2>4 DEF new_dev_cb
<1>2. CASE handle_event
  <2>1. /\ h \in opened /\ lost \subseteq lost' /\ h \notin lost
        /\ UNCHANGED event
    BY <1>2 DEF handle_event
  <2>2. CASE attached \in opened /\ HasRoom /\ Post("disconnected", attached)
    <3>1. CASE h = attached
      <4>1. /\ Len(s_event_queue') = Len(s_event_queue) + 1
            /\ s_event_queue' \in Seq(Event) /\ Len(s_event_queue) \in Nat
            /\ s_event_queue'[Len(s_event_queue) + 1] = Disconnect(h)
        BY <1>0, <2>1, <2>2, <3>1, PostKeepsType DEF IInv, TypeOK, Disconnect
      <4>2. Len(s_event_queue) + 1 \in DOMAIN s_event_queue'
        BY <4>1
      <4> QED BY <4>1, <4>2 DEF DisconnectPending, Disconnect
    <3>2. CASE h # attached
      <4>1. DisconnectPending(h)
        BY <2>1, <3>2 DEF GoneIsReported
      <4> QED BY <1>0, <2>1, <2>2, <4>1, PostKeepsPending
    <3> QED BY <3>1, <3>2
  <2>3. CASE /\ UNCHANGED s_event_queue
             /\ attached \notin opened \/ lost' = lost \cup {attached}
    <3>1. h # attached
      BY <2>1, <2>3
    <3>2. DisconnectPending(h)
      BY <2>1, <3>1 DEF GoneIsReported
    <3> QED BY <2>1, <2>3, <3>2 DEF DisconnectPending
  <2> QED BY <1>2, <2>2, <2>3 DEF handle_event
<1>3. CASE ReceiveConnected
  <2>1. DisconnectPending(h)
    BY <1>3 DEF ReceiveConnected, Receive, GoneIsReported
  <2> QED BY <1>3, <2>1, ReceiveKeepsPending
<1>4. CASE ReceiveDisconnected
  <2>1. event'.at = "close"
    BY <1>4 DEF ReceiveDisconnected, Idle
  <2> QED BY <2>1 DEF DisconnectPending
<1>5. CASE OpenDevice
  <2>1. opened = {} /\ opened' = {attached} /\ UNCHANGED attached
    BY <1>5 DEF OpenDevice, IInv, HandleInv
  <2> QED BY <2>1
<1>6. CASE Close
  BY <1>6 DEF Close, IInv, HandleInv, DisconnectInv
<1>7. CASE /\ UNCHANGED <<attached, s_event_queue, lost, opened>>
           /\ event.at # "close" \/ UNCHANGED event
  <2>1. DisconnectPending(h)
    BY <1>7 DEF GoneIsReported
  <2> QED BY <1>7, <2>1 DEF DisconnectPending
<1> QED BY <1>1, <1>2, <1>3, <1>4, <1>5, <1>6, <1>7
        DEF Next, Host, usb_event_task, OpenFails, SetCoding, Store, AnnounceUp,
            AnnounceDown, StartSend, ChangeRate, Finish, EndSend, ApplyRate, vars

\* An open handle whose device is gone has its disconnect queued or in hand,
\* unless a full queue dropped it: the callback posts while the handle is open,
\* also between cdc_acm_host_open and the store of s_cdc_dev.
THEOREM GoneReported == Spec => []GoneIsReported
<1>1. Init => GoneIsReported
  BY DEF Init, GoneIsReported
<1> QED BY <1>1, ReportStep, HandleInvariant, PTL DEF Spec

-------------------------------------------------------------------------------
(* The rate                                                                *)

\* What a device with handle h runs at, when no rate change is half done: the
\* configured rate, or, before it is set, the one read for it.
RateInv ==
    /\ httpd.at = "baud" => httpd.baud = s_baud_rate
    /\ httpd.at # "baud" => \A h \in Handle \ (untuned \cup late) :
           /\ OpenAtRate(h)
           /\ event.at = "store" /\ event.dev = h => rate[h] = s_baud_rate
    /\ httpd.at # "baud" /\ event.at = "coding" /\ event.dev \notin late =>
           event.baud = s_baud_rate

LEMMA RateStep == IInv /\ RateInv /\ [Next]_vars => RateInv'
<1> SUFFICES ASSUME IInv, RateInv, [Next]_vars PROVE RateInv'
  OBVIOUS
<1> USE DEF queueVars, handleVars, rateVars
<1>0. /\ event \in TaskState /\ httpd \in RequestState
      /\ rate \in [Handle -> Rates \cup {0}] /\ s_cdc_dev \in Handle \cup {None}
  BY DEF IInv, TypeOK
<1>1. CASE OpenDevice
  <2>1. /\ event'.at = "coding" /\ event'.baud = s_baud_rate
        /\ UNCHANGED <<s_cdc_dev, rate, s_baud_rate, untuned, late, httpd>>
    BY <1>0, <1>1 DEF OpenDevice, TaskState
  <2> QED BY <2>1 DEF RateInv, OpenAtRate
<1>2. CASE SetCoding
  <2>1. /\ event.at = "coding" /\ event'.at = "store" /\ event'.dev = event.dev
        /\ UNCHANGED <<s_cdc_dev, s_baud_rate, late, httpd>>
        /\ s_cdc_dev = None /\ event.dev \in Handle
    BY <1>0, <1>2 DEF SetCoding, TaskState, IInv, HandleInv
  <2>2. ASSUME NEW h \in Handle \ (untuned' \cup late'), httpd.at # "baud",
               event.dev = h
        PROVE  rate'[h] = s_baud_rate
    <3>1. rate' = [rate EXCEPT ![h] = event.baud]
      BY <1>2, <2>2 DEF SetCoding, SetLine
    <3> QED BY <1>0, <2>1, <2>2, <3>1 DEF RateInv
  <2>3. \A h \in Handle : h # s_cdc_dev'
    BY <2>1 DEF Handle, None
  <2> QED BY <2>1, <2>2, <2>3 DEF RateInv, OpenAtRate
<1>3. CASE Store
  <2>1. /\ event.at = "store" /\ event'.at = "up" /\ s_cdc_dev' = event.dev
        /\ UNCHANGED <<rate, s_baud_rate, untuned, late, httpd>>
    BY <1>0, <1>3 DEF Store, TaskState
  <2> QED BY <2>1 DEF RateInv, OpenAtRate
<1>4. CASE Close
  <2>1. /\ event'.at = "down" /\ s_cdc_dev' = None
        /\ UNCHANGED <<rate, s_baud_rate, untuned, late, httpd>>
    BY <1>0, <1>4 DEF Close, TaskState
  <2>2. \A h \in Handle : h # s_cdc_dev'
    BY <2>1 DEF Handle, None
  <2> QED BY <2>1, <2>2 DEF RateInv, OpenAtRate
<1>5. CASE \/ ReceiveConnected \/ ReceiveDisconnected \/ OpenFails
           \/ AnnounceUp \/ AnnounceDown
  <2>1. event'.at \notin {"store", "coding"}
    <3>1. /\ Idle.at = "idle" /\ [Idle EXCEPT !.at = "close"].at = "close"
          /\ \A m : [Idle EXCEPT !.at = "open", !.msg = m].at = "open"
      BY DEF Idle
    <3> QED BY <1>5, <3>1 DEF ReceiveConnected, ReceiveDisconnected, OpenFails,
                              AnnounceUp, AnnounceDown
  <2>2. UNCHANGED <<s_cdc_dev, rate, s_baud_rate, untuned, late, httpd>>
    BY <1>5 DEF ReceiveConnected, ReceiveDisconnected, Receive, OpenFails,
                AnnounceUp, AnnounceDown
  <2> QED BY <2>1, <2>2 DEF RateInv, OpenAtRate
<1>6. CASE StartSend \/ EndSend
  <2>1. httpd.at # "baud" /\ httpd'.at # "baud"
    <3>1. /\ NoRequest.at = "idle"
          /\ [NoRequest EXCEPT !.at = "tx", !.dev = s_cdc_dev].at = "tx"
      BY DEF NoRequest
    <3> QED BY <1>6, <3>1 DEF StartSend, EndSend
  <2>2. UNCHANGED <<s_cdc_dev, rate, s_baud_rate, untuned, late, event>>
    BY <1>6 DEF StartSend, EndSend
  <2> QED BY <2>1, <2>2 DEF RateInv, OpenAtRate
<1>7. ASSUME NEW r \in Rates, ChangeRate(r) PROVE RateInv'
  <2>1. httpd'.at = "baud" /\ httpd'.baud = s_baud_rate'
    BY <1>7 DEF ChangeRate, NoRequest
  <2> QED BY <2>1 DEF RateInv
<1>8. CASE ApplyRate
  <2>1. /\ httpd.at = "baud" /\ httpd.baud = s_baud_rate /\ httpd'.at = "idle"
        /\ UNCHANGED <<s_cdc_dev, s_baud_rate, event>>
    BY <1>8 DEF ApplyRate, NoRequest, RateInv
  <2>2. CASE s_cdc_dev # None /\ SetLine(s_cdc_dev, httpd.baud) /\ UNCHANGED late
    <3>1. event.at \notin {"coding", "store"}
      BY <2>2 DEF IInv, HandleInv
    <3>2. ASSUME NEW h \in Handle \ (untuned' \cup late'), s_cdc_dev = h
          PROVE  rate'[h] = s_baud_rate
      BY <1>0, <2>1, <2>2, <3>2 DEF SetLine
    <3> QED BY <2>1, <3>1, <3>2 DEF RateInv, OpenAtRate
  <2>3. CASE /\ s_cdc_dev = None /\ UNCHANGED <<rate, untuned>>
             /\ late' = IF event.at \in {"coding", "store"}
                        THEN late \cup {event.dev} ELSE late
    <3>1. \A h \in Handle : h # s_cdc_dev'
      BY <2>1, <2>3 DEF Handle, None
    <3>2. event.at \in {"coding", "store"} => event.dev \in late'
      BY <2>3
    <3> QED BY <2>1, <3>1, <3>2 DEF RateInv, OpenAtRate
  <2> QED BY <1>8, <2>2, <2>3 DEF ApplyRate
<1>9. CASE UNCHANGED <<s_cdc_dev, rateVars, event, httpd>>
  BY <1>9 DEF RateInv, OpenAtRate
<1> QED BY <1>1, <1>2, <1>3, <1>4, <1>5, <1>6, <1>7, <1>8, <1>9
        DEF Next, Host, new_dev_cb, handle_event, usb_event_task, Finish, vars

\* An open device that took its rate runs at the configured one, whatever the
\* order of plugging and rate changes, unless a change fell between the reading
\* of s_baud_rate for it and the store of its handle.
THEOREM RateTaken == Spec => []RateUnlessRaced
<1>1. Init => RateInv
  BY DEF Init, RateInv, NoRequest, Idle, OpenAtRate, Handle, None
<1>2. RateInv => RateUnlessRaced
  BY DEF RateInv, RateUnlessRaced, AtRest
<1> QED BY <1>1, <1>2, RateStep, HandleInvariant, PTL DEF Spec
===============================================================================
