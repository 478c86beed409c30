--------------------------- MODULE SettingsProofs ---------------------------
(***************************************************************************)
(* Proofs about Settings for any number of menus, calls of tools, ports    *)
(* and settings, and any sizes of files: what serial_connect reports, that *)
(* the copies of the settings agree, and who waits for whom.               *)
(***************************************************************************)
EXTENDS Settings, TLAPS

ActOK == act \in [Actors -> Actor]

-----------------------------------------------------------------------------
(* How the steps change the record of an actor.                             *)

LEMMA RestIsActor == /\ Default \in Saved /\ Serial(Default) \in Conf
                     /\ Rest \in Actor /\ Rest.pc = "idle"
BY ValuesAssumption DEF Default, Saved, Serial, Conf, Rest, Actor, Pcs

\* A record with another pc.
LEMMA WithPc ==
  ASSUME NEW r \in Actor, NEW p \in Pcs, NEW q, q = [r EXCEPT !.pc = p]
  PROVE  /\ q \in Actor /\ q.pc = p /\ q.val = r.val /\ q.text = r.text
         /\ q.opened = r.opened /\ q.overtaken = r.overtaken
BY DEF Actor

\* One actor's record is replaced.
LEMMA PutOne ==
  ASSUME ActOK, NEW a \in Actors, NEW r \in Actor, Put(a, r)
  PROVE  /\ ActOK' /\ act'[a] = r
         /\ \A b \in Actors : b # a => act'[b] = act[b]
BY DEF ActOK, Put

LEMMA GoOne ==
  ASSUME ActOK, NEW a \in Actors, NEW p \in Pcs, Go(a, p)
  PROVE  /\ ActOK' /\ act'[a].pc = p /\ act'[a].val = act[a].val
         /\ act'[a].text = act[a].text /\ act'[a].opened = act[a].opened
         /\ act'[a].overtaken = act[a].overtaken
         /\ \A b \in Actors : b # a => act'[b] = act[b]
<1> DEFINE r == [act[a] EXCEPT !.pc = p]
<1>1. act[a] \in Actor
  BY DEF ActOK
<1>2. /\ r \in Actor /\ r.pc = p /\ r.val = act[a].val /\ r.text = act[a].text
      /\ r.opened = act[a].opened /\ r.overtaken = act[a].overtaken
  BY <1>1, WithPc
<1>3. /\ ActOK' /\ act'[a] = r
      /\ \A b \in Actors : b # a => act'[b] = act[b]
  BY <1>2, PutOne DEF Go
<1> QED
  BY <1>2, <1>3

LEMMA ReturnOne ==
  ASSUME ActOK, NEW a \in Actors, Return(a)
  PROVE  /\ ActOK' /\ act'[a] = Rest /\ act'[a].pc = "idle"
         /\ \A b \in Actors : b # a => act'[b] = act[b]
BY RestIsActor, PutOne DEF Return

-----------------------------------------------------------------------------
(* What the steps do, told without record updates.                          *)

Values == ActOK /\ conf \in Conf /\ cfg \in Saved

\* Only a moves.
Only(a) == ActOK' /\ \A b \in Actors : b # a => act'[b] = act[b]
Same(a) == act'[a].val = act[a].val /\ act'[a].opened = act[a].opened
           /\ act'[a].overtaken = act[a].overtaken

Outside == {"idle", "mutex", "look", "off", "change", "flip", "after",
            "toggle", "connect", "existing", "recheck", "report",
            "disconnect", "boot"}

\* A tool at its Connect finds the port it asked for, unless overtaken.
Ordered(t) == At(t, "connect") =>
                act[t].overtaken \/ conf.port = act[t].val.port

\* Steps that leave the settings alone.
Plain(a) ==
  /\ Only(a) /\ act[a].pc \in Outside
  /\ \/ act'[a].pc \in Outside
     \/ act'[a].pc = "update" /\ a \notin Menus
  /\ UNCHANGED <<conf, cfg, file, lock, mishaps>>
  /\ a \in Tools =>
       /\ act'[a].pc # "connect"
       /\ act'[a].pc = "report" /\ Ordered(a) =>
            act'[a].opened \/ act'[a].overtaken

LEMMA PlainConnect ==
  ASSUME Values, NEW a \in Actors, Connect(a) PROVE Plain(a)
<1>1. /\ act[a].pc = "connect" /\ act[a] \in Actor
      /\ UNCHANGED <<conf, cfg, file, lock, mishaps>>
  BY DEF Connect, At, Link!UserConnect, ConnectTo, linkVars, Values, ActOK
<1>2. CASE Return(a)
  <2>1. Only(a) /\ act'[a].pc = "idle"
    BY <1>2, ReturnOne DEF Values, Only
  <2> QED
    BY <1>1, <2>1 DEF Plain, Outside
<1>3. CASE Go(a, "recheck")
  <2>1. Only(a) /\ act'[a].pc = "recheck"
    BY <1>3, GoOne DEF Values, Only, Pcs
  <2> QED
    BY <1>1, <2>1 DEF Plain, Outside
<1>4. CASE a \in Tools /\ Put(a, [act[a] EXCEPT !.pc = "report",
                                        !.opened = Opened(a, "up", conf)])
  <2>1. PICK o \in BOOLEAN : o = Opened(a, "up", conf)
    BY DEF Opened
  <2> DEFINE r == [act[a] EXCEPT !.pc = "report", !.opened = o]
  <2>2. /\ r \in Actor /\ r.pc = "report" /\ r.overtaken = act[a].overtaken
        /\ r.opened = Opened(a, "up", conf)
    <3>1. "report" \in Pcs
      BY DEF Pcs
    <3> QED
      BY <1>1, <2>1, <3>1 DEF Actor
  <2>3. Only(a) /\ act'[a] = r
    BY <1>4, <2>1, <2>2, PutOne DEF Values, Only
  <2> QED
    BY <1>1, <2>2, <2>3 DEF Plain, Outside, Ordered, Opened, At
<1> QED
  BY <1>2, <1>3, <1>4 DEF Connect, ConnectTo

LEMMA PlainMenu ==
  ASSUME Values, NEW m \in Menus,
         MenuLook(m) \/ MenuOff(m) \/ MenuAfter(m) \/ MenuToggle(m) \/ Click(m)
  PROVE  Plain(m)
<1>1. m \in Actors /\ m \notin Tools /\ act[m] \in Actor
  BY ActorsAssumption DEF Actors, Values, ActOK
<1>2. /\ act[m].pc \in Outside
      /\ UNCHANGED <<conf, cfg, file, lock, mishaps>>
  BY DEF MenuLook, MenuOff, MenuAfter, MenuToggle, Click, At, callVars,
         linkVars, DisconnectLink, Link!UserDisconnect, Outside
<1>3. CASE Return(m)
  <2>1. Only(m) /\ act'[m].pc = "idle"
    BY <1>1, <1>3, ReturnOne DEF Values, Only
  <2> QED
    BY <1>1, <1>2, <2>1 DEF Plain, Outside
<1>4. CASE \E p \in {"change", "connect", "disconnect", "look", "toggle", "flip"} :
             Go(m, p)
  <2>1. PICK p \in {"change", "connect", "disconnect", "look", "toggle", "flip"} :
          Go(m, p)
    BY <1>4
  <2>2. Only(m) /\ act'[m].pc = p
    BY <1>1, <2>1, GoOne DEF Values, Only, Pcs
  <2> QED
    BY <1>1, <1>2, <2>2 DEF Plain, Outside
<1>5. CASE MenuLook(m)
  <2>0. PICK w \in BOOLEAN : w = (mode = "up")
    OBVIOUS
  <2>1. PICK p \in {"off", "change"} :
          Put(m, [act[m] EXCEPT !.was = w, !.pc = p])
    BY <1>5, <2>0 DEF MenuLook
  <2> DEFINE r == [act[m] EXCEPT !.was = w, !.pc = p]
  <2>2. r \in Actor /\ r.pc = p
    <3>1. p \in Pcs
      BY <2>1 DEF Pcs
    <3> QED
      BY <1>1, <3>1 DEF Actor
  <2>3. Only(m) /\ act'[m] = r
    BY <1>1, <2>1, <2>2, PutOne DEF Values, Only
  <2> QED
    BY <1>1, <1>2, <2>2, <2>3 DEF Plain, Outside
<1> QED
  BY <1>3, <1>4, <1>5 DEF MenuOff, MenuAfter, MenuToggle, Click

LEMMA PlainTool ==
  ASSUME Values, NEW t \in Tools, Tool(t) PROVE Plain(t)
<1>1. t \in Actors /\ act[t] \in Actor
  BY DEF Actors, Values, ActOK
<1>2. /\ act[t].pc \in {"toggle", "mutex", "look", "recheck", "existing", "report"}
      /\ UNCHANGED <<conf, cfg, file, lock, mishaps>>
  BY DEF Tool, ToolDisconnect, ToolMutex, ToolLook, ToolRecheck, ToolExisting,
         ToolReport, At, callVars, linkVars
<1>3. CASE Return(t)
  <2>1. Only(t) /\ act'[t].pc = "idle"
    BY <1>1, <1>3, ReturnOne DEF Values, Only
  <2> QED
    BY <1>2, <2>1 DEF Plain, Outside
<1>4. CASE \E p \in {"disconnect", "look", "existing"} : Go(t, p)
  <2>1. PICK p \in {"disconnect", "look", "existing"} : Go(t, p)
    BY <1>4
  <2>2. Only(t) /\ act'[t].pc = p
    BY <1>1, <2>1, GoOne DEF Values, Only, Pcs
  <2> QED
    BY <1>2, <2>2 DEF Plain, Outside
<1>5. CASE Go(t, "update")
  <2>1. Only(t) /\ act'[t].pc = "update"
    BY <1>1, <1>5, GoOne DEF Values, Only, Pcs
  <2>2. t \notin Menus
    BY ActorsAssumption
  <2> QED
    BY <1>2, <2>1, <2>2 DEF Plain, Outside
<1>6. CASE SamePort(t) /\ Put(t, [act[t] EXCEPT !.pc = "report",
                                    !.opened = @ \/ Opened(t, mode, conf)])
  <2> DEFINE r == [act[t] EXCEPT !.pc = "report", !.opened = TRUE]
  <2>1. Put(t, r)
    BY <1>6 DEF SamePort
  <2>2. r \in Actor /\ r.pc = "report" /\ r.opened
    <3>1. "report" \in Pcs
      BY DEF Pcs
    <3> QED
      BY <1>1, <3>1 DEF Actor
  <2>3. Only(t) /\ act'[t] = r
    BY <1>1, <2>1, <2>2, PutOne DEF Values, Only
  <2> QED
    BY <1>2, <2>2, <2>3 DEF Plain, Outside
<1> QED
  BY <1>3, <1>4, <1>5, <1>6
     DEF Tool, ToolDisconnect, ToolMutex, ToolLook, ToolRecheck, ToolExisting,
         ToolReport

LEMMA PlainToolCall ==
  ASSUME Values, NEW t \in Tools, ToolCall(t) PROVE Plain(t)
<1>1. t \in Actors
  BY DEF Actors
<1>2. act[t].pc \in Outside /\ UNCHANGED <<conf, cfg, file, lock, mishaps>>
  BY DEF ToolCall, At, callVars, linkVars, Outside
<1>3. CASE \E c \in Conf : Put(t, [Rest EXCEPT !.pc = "mutex", !.val = c])
  <2>1. PICK c \in Conf : Put(t, [Rest EXCEPT !.pc = "mutex", !.val = c])
    BY <1>3
  <2> DEFINE r == [Rest EXCEPT !.pc = "mutex", !.val = c]
  <2>2. r \in Actor /\ r.pc = "mutex"
    <3>1. "mutex" \in Pcs /\ Rest \in Actor
      BY RestIsActor DEF Pcs
    <3> QED
      BY <3>1 DEF Actor
  <2>3. Only(t) /\ act'[t] = r
    BY <1>1, <2>1, <2>2, PutOne DEF Values, Only
  <2> QED
    BY <1>2, <2>2, <2>3 DEF Plain, Outside
<1>4. CASE Go(t, "toggle")
  <2>1. Only(t) /\ act'[t].pc = "toggle"
    BY <1>1, <1>4, GoOne DEF Values, Only, Pcs
  <2> QED
    BY <1>2, <2>1 DEF Plain, Outside
<1> QED
  BY <1>3, <1>4 DEF ToolCall

LEMMA PlainPage ==
  ASSUME Values, PageCommand PROVE Plain(Page)
<1>1. Page \in Actors /\ Page \notin Menus /\ Page \notin Tools
  BY ActorsAssumption DEF Actors
<1>2. act[Page].pc \in Outside /\ UNCHANGED <<conf, cfg, file, lock, mishaps>>
  BY DEF PageCommand, At, callVars, linkVars, Outside
<1>3. CASE \E c \in Conf : Put(Page, [Rest EXCEPT !.pc = "update", !.val = c])
  <2>1. PICK c \in Conf : Put(Page, [Rest EXCEPT !.pc = "update", !.val = c])
    BY <1>3
  <2> DEFINE r == [Rest EXCEPT !.pc = "update", !.val = c]
  <2>2. r \in Actor /\ r.pc = "update"
    <3>1. "update" \in Pcs /\ Rest \in Actor
      BY RestIsActor DEF Pcs
    <3> QED
      BY <3>1 DEF Actor
  <2>3. Only(Page) /\ act'[Page] = r
    BY <1>1, <2>1, <2>2, PutOne DEF Values, Only
  <2> QED
    BY <1>1, <1>2, <2>2, <2>3 DEF Plain, Outside
<1>4. CASE Go(Page, "disconnect")
  <2>1. Only(Page) /\ act'[Page].pc = "disconnect"
    BY <1>1, <1>4, GoOne DEF Values, Only, Pcs
  <2> QED
    BY <1>1, <1>2, <2>1 DEF Plain, Outside
<1> QED
  BY <1>3, <1>4 DEF PageCommand

LEMMA PlainRest ==
  ASSUME Values, NEW a \in Actors, Disconnect(a) \/ (a = Boot /\ BootConnect)
  PROVE  Plain(a)
<1>1. /\ act[a].pc \in Outside /\ Return(a)
      /\ UNCHANGED <<conf, cfg, file, lock, mishaps>>
  BY DEF Disconnect, DisconnectLink, Link!UserDisconnect, BootConnect,
         ConnectTo, Link!UserConnect, linkVars, At, Outside
<1>2. Only(a) /\ act'[a].pc = "idle"
  BY <1>1, ReturnOne DEF Values, Only
<1> QED
  BY <1>1, <1>2 DEF Plain, Outside

-----------------------------------------------------------------------------
(* The handler.                                                             *)

LEMMA AssignEffect ==
  ASSUME Values, NEW a \in Actors, Assign(a)
  PROVE  /\ Only(a) /\ Same(a)
         /\ act[a].pc = "assign" /\ act'[a].pc = "assignrest"
         /\ cfg' \in Saved /\ cfg'.port = act[a].val.port
         /\ cfg'.baud = cfg.baud
         /\ UNCHANGED <<conf, lock, file, mishaps>>
<1>1. act[a].val \in Conf
  BY DEF Values, ActOK, Actor
<1>2. cfg' \in Saved /\ cfg'.port = act[a].val.port /\ cfg'.baud = cfg.baud
  BY <1>1 DEF Assign, Values, Saved, Conf
<1>3. Only(a) /\ Same(a) /\ act'[a].pc = "assignrest"
  BY GoOne DEF Assign, Values, Only, Same, Pcs
<1> QED
  BY <1>2, <1>3 DEF Assign, At, linkVars

LEMMA AssignRestEffect ==
  ASSUME Values, NEW a \in Actors, AssignRest(a)
  PROVE  /\ Only(a) /\ Same(a)
         /\ act[a].pc = "assignrest" /\ act'[a].pc = "truncate"
         /\ cfg' \in Saved /\ cfg'.port = cfg.port
         /\ cfg'.baud = act[a].val.baud
         /\ UNCHANGED <<conf, lock, file, mishaps>>
<1>1. act[a].val \in Conf
  BY DEF Values, ActOK, Actor
<1>2. cfg' \in Saved /\ cfg'.port = cfg.port /\ cfg'.baud = act[a].val.baud
  BY <1>1 DEF AssignRest, Values, Saved, Conf
<1>3. Only(a) /\ Same(a) /\ act'[a].pc = "truncate"
  BY GoOne DEF AssignRest, Values, Only, Same, Pcs
<1> QED
  BY <1>2, <1>3 DEF AssignRest, At, linkVars

LEMMA HandlerReturnsEffect ==
  ASSUME Values, NEW a \in Actors, HandlerReturns(a)
  PROVE  /\ Only(a) /\ Same(a) /\ act'[a].pc = SavedTo(a)
         /\ SavedTo(a) \in {"notify", "after", "boot", "idle", "connect"}
         /\ SavedTo(a) = "notify" => a \in Menus
         /\ lock' = IF lock = a THEN Nobody ELSE lock
<1>1. /\ SavedTo(a) \in {"notify", "after", "boot", "idle", "connect"}
      /\ SavedTo(a) = "notify" => a \in Menus
  BY DEF SavedTo
<1>2. SavedTo(a) \in Pcs
  BY <1>1 DEF Pcs
<1>3. Only(a) /\ Same(a) /\ act'[a].pc = SavedTo(a)
  BY <1>2, GoOne DEF HandlerReturns, Values, Only, Same
<1> QED
  BY <1>1, <1>3 DEF HandlerReturns

\* Create the file, or give up on saving.
LEMMA TruncateEffect ==
  ASSUME Values, NEW a \in Actors, Truncate(a)
  PROVE  /\ Only(a) /\ Same(a) /\ act[a].pc = "truncate"
         /\ UNCHANGED <<conf, cfg>>
         /\ \/ /\ act'[a].pc = "encode" /\ file' = Empty
               /\ UNCHANGED <<lock, mishaps>>
            \/ HandlerReturns(a) /\ "failed" \in mishaps'
<1>1. act[a].pc = "truncate" /\ UNCHANGED <<conf, cfg>>
  BY DEF Truncate, At, linkVars
<1>2. CASE HandlerReturns(a) /\ "failed" \in mishaps'
  BY <1>1, <1>2, HandlerReturnsEffect
<1>3. CASE file' = Empty /\ Go(a, "encode") /\ UNCHANGED <<lock, mishaps>>
  <2>1. Only(a) /\ Same(a) /\ act'[a].pc = "encode"
    BY <1>3, GoOne DEF Values, Only, Same, Pcs
  <2> QED
    BY <1>1, <1>3, <2>1
<1> QED
  BY <1>2, <1>3 DEF Truncate

LEMMA EncodeEffect ==
  ASSUME Values, NEW a \in Actors, Encode(a)
  PROVE  /\ Only(a) /\ Same(a) /\ act[a].pc = "encode"
         /\ act'[a].pc = "write" /\ act'[a].text = cfg
         /\ UNCHANGED <<conf, cfg, lock, file, mishaps>>
<1> DEFINE r == [act[a] EXCEPT !.pc = "write", !.text = cfg]
<1>1. act[a] \in Actor /\ cfg \in Saved
  BY DEF Values, ActOK
<1>2. /\ r \in Actor /\ r.pc = "write" /\ r.text = cfg /\ r.val = act[a].val
      /\ r.opened = act[a].opened /\ r.overtaken = act[a].overtaken
  <2>1. "write" \in Pcs
    BY DEF Pcs
  <2> QED
    BY <1>1, <2>1 DEF Actor
<1>3. Only(a) /\ act'[a] = r
  BY <1>2, PutOne DEF Encode, Values, Only
<1> QED
  BY <1>2, <1>3 DEF Encode, At, Same, linkVars

LEMMA WriteEffect ==
  ASSUME Values, NEW a \in Actors, Write(a)
  PROVE  /\ Only(a) /\ Same(a) /\ act[a].pc = "write" /\ HandlerReturns(a)
         /\ UNCHANGED <<conf, cfg>>
         /\ \/ file' = Written(file, act[a].text) /\ UNCHANGED mishaps
            \/ "failed" \in mishaps'
BY HandlerReturnsEffect DEF Write, At, linkVars

-----------------------------------------------------------------------------
(* Who reconfigures the link, and the menus.                                *)

\* b stays where it is, and may learn that it has been overtaken.
Alike(b) ==
  /\ act'[b].pc = act[b].pc /\ act'[b].val = act[b].val
  /\ act'[b].text = act[b].text /\ act'[b].opened = act[b].opened
  /\ act[b].overtaken => act'[b].overtaken
  /\ b \in Tools /\ At(b, "connect") => act'[b].overtaken

LEMMA OvertakenEffect ==
  ASSUME ActOK, NEW b \in Actors,
         act'[b] = [act[b] EXCEPT !.overtaken = @ \/ At(b, "connect")]
  PROVE  act'[b] \in Actor /\ Alike(b)
<1>1. act[b] \in Actor
  BY DEF ActOK
<1>2. PICK o \in BOOLEAN : o = (act[b].overtaken \/ At(b, "connect"))
  OBVIOUS
<1>3. act'[b] = [act[b] EXCEPT !.overtaken = o]
  BY <1>2
<1>4. /\ act'[b] \in Actor /\ act'[b].overtaken = o
      /\ act'[b].pc = act[b].pc /\ act'[b].val = act[b].val
      /\ act'[b].text = act[b].text /\ act'[b].opened = act[b].opened
  BY <1>1, <1>3 DEF Actor
<1> QED
  BY <1>2, <1>4 DEF Alike

\* The settings of the link change: a's handler runs, the others are alike.
Reconfigured(a) ==
  /\ ActOK' /\ lock = Nobody /\ lock' = a
  /\ act'[a].pc = "assign" /\ conf' = act'[a].val
  /\ act'[a].val.port # NoPort
  /\ \A b \in Actors : b # a => Alike(b)
  /\ mishaps' = mishaps \cup Crossing(a)
  /\ UNCHANGED <<cfg, file>>

LEMMA UpdateEffect ==
  ASSUME Values, NEW a \in Actors, UpdateConfig(a), lock' # lock
  PROVE  /\ Reconfigured(a) /\ act[a].pc = "update"
         /\ act'[a].val = act[a].val
<1>1. /\ At(a, "update") /\ Unlocked /\ UNCHANGED <<cfg, file>>
      /\ act[a].val.port # NoPort /\ conf' = act[a].val
      /\ lock' = a /\ mishaps' = mishaps \cup Crossing(a)
      /\ act' = [b \in Actors |->
                   IF b = a THEN [act[a] EXCEPT !.pc = "assign"]
                   ELSE IF b \in Tools
                   THEN [act[b] EXCEPT !.overtaken = @ \/ At(b, "connect")]
                   ELSE act[b]]
  BY DEF UpdateConfig, Link!Reconfigure
<1>2. act'[a] \in Actor /\ act'[a].pc = "assign" /\ act'[a].val = act[a].val
  <2>1. act[a] \in Actor /\ "assign" \in Pcs
    BY DEF Values, ActOK, Pcs
  <2>2. act'[a] = [act[a] EXCEPT !.pc = "assign"]
    BY <1>1
  <2> QED
    BY <2>1, <2>2 DEF Actor
<1>3. ASSUME NEW b \in Actors, b # a PROVE act'[b] \in Actor /\ Alike(b)
  <2>1. CASE b \in Tools
    <3>1. act'[b] = [act[b] EXCEPT !.overtaken = @ \/ At(b, "connect")]
      BY <1>1, <1>3, <2>1
    <3> QED
      BY <3>1, OvertakenEffect DEF Values
  <2>2. CASE b \notin Tools
    BY <1>1, <1>3, <2>2 DEF Values, ActOK, Alike
  <2> QED
    BY <2>1, <2>2
<1>4. ActOK'
  BY <1>1, <1>2, <1>3 DEF ActOK
<1> QED
  BY <1>1, <1>2, <1>3, <1>4 DEF Reconfigured, Unlocked, At

LEMMA RefusedEffect ==
  ASSUME Values, NEW a \in Actors, UpdateConfig(a), lock' = lock
  PROVE  /\ Only(a) /\ act[a].pc = "update"
         /\ act'[a].pc \in {"notify", "recheck", "idle"}
         /\ act'[a].pc = "notify" <=> a \in Menus
         /\ UNCHANGED <<conf, cfg, file, lock>>
         /\ mishaps' = mishaps \cup IF a \in Menus /\ act[a].val.port # NoPort
                                     THEN {"refused"} ELSE {}
<1>1. /\ At(a, "update") /\ UNCHANGED <<conf, cfg, file, lock>>
      /\ Go(a, RefusedTo(a))
      /\ mishaps' = mishaps \cup IF a \in Menus /\ act[a].val.port # NoPort
                                  THEN {"refused"} ELSE {}
  BY ActorsAssumption DEF UpdateConfig, Unlocked, Link!Reconfigure, linkVars
<1>2. /\ RefusedTo(a) \in {"notify", "recheck", "idle"}
      /\ RefusedTo(a) = "notify" <=> a \in Menus
  BY DEF RefusedTo
<1>3. RefusedTo(a) \in Pcs
  BY <1>2 DEF Pcs
<1>4. Only(a) /\ act'[a].pc = RefusedTo(a)
  BY <1>1, <1>3, GoOne DEF Values, Only
<1> QED
  BY <1>1, <1>2, <1>4 DEF At

LEMMA RenameEffect ==
  ASSUME Values, TaskRenames
  PROVE  Reconfigured(Task) /\ conf' \in Conf /\ act[Task].pc = "idle"
<1>1. PICK p \in Ports \ {conf.port} :
        /\ conf' = WithPort(conf, p)
        /\ act' = [a \in Actors |->
                     IF a = Task
                     THEN [Rest EXCEPT !.pc = "assign", !.val = WithPort(conf, p)]
                     ELSE IF a \in Tools
                     THEN [act[a] EXCEPT !.overtaken = @ \/ At(a, "connect")]
                     ELSE act[a]]
  BY DEF TaskRenames, Link!AutoRename
<1>2. /\ Unlocked /\ lock' = Task /\ mishaps' = mishaps \cup Crossing(Task)
      /\ UNCHANGED <<cfg, file>> /\ act[Task].pc = "idle"
  BY DEF TaskRenames, At
<1>3. conf' \in Conf /\ conf'.port # NoPort
  BY <1>1, ValuesAssumption DEF WithPort, Values, Conf
<1>4. Task \in Actors
  BY DEF Actors
<1>5. act'[Task] \in Actor /\ act'[Task].pc = "assign" /\ act'[Task].val = conf'
  <2>1. act'[Task] = [Rest EXCEPT !.pc = "assign", !.val = conf']
    BY <1>1, <1>4
  <2>2. Rest \in Actor /\ "assign" \in Pcs
    BY RestIsActor DEF Pcs
  <2> QED
    BY <1>3, <2>1, <2>2 DEF Actor
<1>6. ASSUME NEW b \in Actors, b # Task PROVE act'[b] \in Actor /\ Alike(b)
  <2>1. CASE b \in Tools
    <3>1. act'[b] = [act[b] EXCEPT !.overtaken = @ \/ At(b, "connect")]
      BY <1>1, <1>6, <2>1
    <3> QED
      BY <3>1, OvertakenEffect DEF Values
  <2>2. CASE b \notin Tools
    BY <1>1, <1>6, <2>2 DEF Values, ActOK, Alike
  <2> QED
    BY <2>1, <2>2
<1>7. ActOK'
  BY <1>1, <1>5, <1>6 DEF ActOK
<1> QED
  BY <1>2, <1>3, <1>5, <1>6, <1>7 DEF Reconfigured, Unlocked

LEMMA ChangeEffect ==
  ASSUME Values, NEW m \in Menus, MenuChange(m)
  PROVE  /\ m \in Actors /\ Only(m) /\ act[m].pc = "change"
         /\ act'[m].pc = "snapshot" /\ cfg' \in Saved
         /\ cfg'.port = cfg.port \/ cfg'.port # NoPort
         /\ UNCHANGED <<conf, lock, file, mishaps>>
<1>1. m \in Actors
  BY DEF Actors
<1>2. Only(m) /\ act'[m].pc = "snapshot"
  BY <1>1, GoOne DEF MenuChange, Values, Only, Pcs
<1>3. cfg' \in Saved /\ (cfg'.port = cfg.port \/ cfg'.port # NoPort)
  BY ValuesAssumption DEF MenuChange, Values, Saved
<1> QED
  BY <1>1, <1>2, <1>3 DEF MenuChange, At, linkVars

LEMMA FlipEffect ==
  ASSUME Values, NEW m \in Menus, MenuFlip(m)
  PROVE  /\ m \in Actors /\ Only(m) /\ act[m].pc = "flip"
         /\ act'[m].pc = "notify" /\ cfg' \in Saved
         /\ cfg'.port = cfg.port /\ cfg'.baud = cfg.baud
         /\ UNCHANGED <<conf, lock, file, mishaps>>
<1>1. m \in Actors
  BY DEF Actors
<1>2. Only(m) /\ act'[m].pc = "notify"
  BY <1>1, GoOne DEF MenuFlip, Values, Only, Pcs
<1>3. cfg' \in Saved /\ cfg'.port = cfg.port /\ cfg'.baud = cfg.baud
  BY DEF MenuFlip, Values, Saved
<1> QED
  BY <1>1, <1>2, <1>3 DEF MenuFlip, At, linkVars

\* A menu reads the shared settings, for UpdateConfig or for the handler.
LEMMA ReadEffect ==
  ASSUME Values, NEW m \in Menus, Snapshot(m) \/ Notify(m)
  PROVE  /\ m \in Actors /\ Only(m) /\ act'[m].val = Serial(cfg)
         /\ UNCHANGED <<conf, cfg, lock, file>>
         /\ \/ /\ act[m].pc = "snapshot" /\ act'[m].pc = "update"
               /\ UNCHANGED mishaps
            \/ /\ act[m].pc = "notify" /\ act'[m].pc = "assign"
               /\ mishaps' = mishaps \cup Crossing(m)
<1>1. m \in Actors /\ act[m] \in Actor /\ Serial(cfg) \in Conf
  BY DEF Actors, Values, ActOK, Serial, Saved, Conf
<1>2. CASE Snapshot(m)
  <2> DEFINE r == [act[m] EXCEPT !.pc = "update", !.val = Serial(cfg)]
  <2>1. r \in Actor /\ r.pc = "update" /\ r.val = Serial(cfg)
    <3>1. "update" \in Pcs
      BY DEF Pcs
    <3> QED
      BY <1>1, <3>1 DEF Actor
  <2>2. Only(m) /\ act'[m] = r
    BY <1>1, <1>2, <2>1, PutOne DEF Snapshot, Values, Only
  <2> QED
    BY <1>1, <1>2, <2>1, <2>2 DEF Snapshot, At, callVars, linkVars
<1>3. CASE Notify(m)
  <2> DEFINE r == [act[m] EXCEPT !.pc = "assign", !.val = Serial(cfg)]
  <2>1. r \in Actor /\ r.pc = "assign" /\ r.val = Serial(cfg)
    <3>1. "assign" \in Pcs
      BY DEF Pcs
    <3> QED
      BY <1>1, <3>1 DEF Actor
  <2>2. Only(m) /\ act'[m] = r
    BY <1>1, <1>3, <2>1, PutOne DEF Notify, Values, Only
  <2> QED
    BY <1>1, <1>3, <2>1, <2>2 DEF Notify, At, linkVars
<1> QED
  BY <1>2, <1>3

\* The process is new.
Fresh == /\ act = [a \in Actors |-> IF a = Boot THEN [Rest EXCEPT !.pc = "truncate"]
                                    ELSE Rest]
         /\ lock = Nobody /\ cfg \in Saved /\ conf = Serial(cfg)

LEMMA LoadedIsSaved == \A f : Loaded(f) \in Saved
BY RestIsActor DEF Loaded

LEMMA RestartEffect == Restart => Fresh'
<1> SUFFICES ASSUME Restart PROVE Fresh'
  OBVIOUS
<1>1. PICK p \in {Loaded(file).port} \cup Ports :
        cfg' = [Loaded(file) EXCEPT !.port = p]
  BY DEF Restart, Begin
<1>2. Loaded(file) \in Saved
  BY LoadedIsSaved
<1>3. cfg' \in Saved
  BY <1>1, <1>2 DEF Saved
<1> QED
  BY <1>3 DEF Restart, Begin, Fresh

LEMMA FreshValues == Fresh => Values
<1> SUFFICES ASSUME Fresh PROVE Values
  OBVIOUS
<1>1. conf \in Conf /\ cfg \in Saved
  BY DEF Fresh, Serial, Saved, Conf
<1>2. Rest \in Actor /\ [Rest EXCEPT !.pc = "truncate"] \in Actor
  <2>1. Rest \in Actor /\ "truncate" \in Pcs
    BY RestIsActor DEF Pcs
  <2> QED
    BY <2>1 DEF Actor
<1>3. ActOK
  BY <1>2 DEF Fresh, ActOK
<1> QED
  BY <1>1, <1>3 DEF Values

\* Every step is one of these kinds.
LEMMA Kinds ==
  ASSUME Values, [Next]_vars
  PROVE  \/ UNCHANGED <<act, conf, cfg, file, lock, mishaps>>
         \/ Fresh' \/ TaskRenames
         \/ \E a \in Actors : \/ Plain(a) \/ UpdateConfig(a) \/ Handler(a)
         \/ \E m \in Menus : \/ MenuChange(m) \/ MenuFlip(m) \/ Snapshot(m)
                             \/ Notify(m)
<1>1. CASE LinkMoves \/ UNCHANGED vars
  BY <1>1 DEF LinkMoves, Link!Drop, Link!AutoUp, Link!GiveUp, vars, linkVars
<1>2. CASE Restart
  BY <1>2, RestartEffect
<1>3. CASE PageCommand
  BY <1>3, PlainPage DEF Actors
<1>4. ASSUME NEW t \in Tools, ToolCall(t)
      PROVE  \E a \in Actors : Plain(a)
  BY <1>4, PlainToolCall DEF Actors
<1>5. ASSUME NEW m \in Menus, Click(m)
      PROVE  \E a \in Actors : Plain(a)
  BY <1>5, PlainMenu DEF Actors
<1>6. ASSUME NEW a \in Actors, Step(a)
      PROVE  \/ \E b \in Actors : Plain(b) \/ UpdateConfig(b) \/ Handler(b)
             \/ \E m \in Menus : \/ MenuChange(m) \/ MenuFlip(m)
                                 \/ Snapshot(m) \/ Notify(m)
  <2>1. CASE Connect(a) \/ Disconnect(a) \/ (a = Boot /\ BootConnect)
    BY <2>1, PlainConnect, PlainRest
  <2>2. CASE a \in Menus /\ Menu(a)
    BY <2>2, PlainMenu DEF Menu
  <2>3. CASE a \in Tools /\ Tool(a)
    BY <2>3, PlainTool
  <2>4. CASE UpdateConfig(a) \/ Handler(a)
    BY <2>4
  <2> QED
    BY <1>6, <2>1, <2>2, <2>3, <2>4 DEF Step
<1> QED
  BY <1>1, <1>2, <1>3, <1>4, <1>5, <1>6 DEF Next

-----------------------------------------------------------------------------
(* What serial_connect reports.                                             *)

LEMMA HandlerEffect ==
  ASSUME Values, NEW a \in Actors, Handler(a)
  PROVE  /\ Only(a) /\ Same(a) /\ Saving(a) /\ conf' = conf /\ cfg' \in Saved
         /\ \/ act'[a].pc \in {"assignrest", "truncate", "encode", "write"}
               /\ lock' = lock
            \/ /\ act'[a].pc = SavedTo(a)
               /\ SavedTo(a) \in {"notify", "after", "boot", "idle", "connect"}
               /\ lock' = IF lock = a THEN Nobody ELSE lock
<1>1. CASE Assign(a)
  BY <1>1, AssignEffect DEF Saving
<1>2. CASE AssignRest(a)
  BY <1>2, AssignRestEffect DEF Saving
<1>3. CASE Truncate(a)
  BY <1>3, TruncateEffect, HandlerReturnsEffect DEF Saving, Values
<1>4. CASE Encode(a)
  BY <1>4, EncodeEffect DEF Saving, Values
<1>5. CASE Write(a)
  BY <1>5, WriteEffect, HandlerReturnsEffect DEF Saving, Values
<1> QED
  BY <1>1, <1>2, <1>3, <1>4, <1>5 DEF Handler

LEMMA ValuesStep == Values /\ [Next]_vars => Values'
<1> SUFFICES ASSUME Values, [Next]_vars PROVE Values'
  OBVIOUS
<1>1. CASE UNCHANGED <<act, conf, cfg, file, lock, mishaps>>
  BY <1>1 DEF Values, ActOK
<1>2. CASE Fresh'
  BY <1>2, FreshValues, PTL
<1>3. CASE TaskRenames
  BY <1>3, RenameEffect DEF Reconfigured, Values
<1>4. ASSUME NEW a \in Actors, Plain(a) PROVE Values'
  BY <1>4 DEF Plain, Only, Values
<1>5. ASSUME NEW a \in Actors, UpdateConfig(a) PROVE Values'
  <2>1. CASE lock' = lock
    BY <1>5, <2>1, RefusedEffect DEF Only, Values
  <2>2. CASE lock' # lock
    <3>1. Reconfigured(a)
      BY <1>5, <2>2, UpdateEffect
    <3>2. act'[a].val \in Conf
      BY <3>1 DEF Reconfigured, ActOK, Actor
    <3> QED
      BY <3>1, <3>2 DEF Reconfigured, Values
  <2> QED
    BY <2>1, <2>2
<1>6. ASSUME NEW a \in Actors, Handler(a) PROVE Values'
  BY <1>6, HandlerEffect DEF Only, Values
<1>7. ASSUME NEW m \in Menus,
             MenuChange(m) \/ MenuFlip(m) \/ Snapshot(m) \/ Notify(m)
      PROVE  Values'
  BY <1>7, ChangeEffect, FlipEffect, ReadEffect DEF Only, Values
<1> QED
  BY <1>1, <1>2, <1>3, <1>4, <1>5, <1>6, <1>7, Kinds

\* Whoever holds sm.mu is in the handler, which saves the settings in force,
\* and a tool is in the handler only with sm.mu.
Locks ==
  /\ lock # Nobody =>
       lock \in Actors /\ Saving(lock) /\ conf = act[lock].val
  /\ \A t \in Tools : Saving(t) => lock = t

LEMMA FreshPcs ==
  ASSUME Fresh, NEW a \in Actors
  PROVE  act[a].pc = IF a = Boot THEN "truncate" ELSE "idle"
<1>1. Rest.pc = "idle" /\ [Rest EXCEPT !.pc = "truncate"].pc = "truncate"
  BY DEF Rest
<1> QED
  BY <1>1 DEF Fresh

LEMMA LocksFresh == Fresh => Locks
<1>1. \A t \in Tools : t \in Actors /\ t # Boot
  BY ActorsAssumption DEF Actors
<1> QED
  BY <1>1, FreshPcs DEF Locks, Saving, Fresh

LEMMA LocksStep == Values /\ Locks /\ [Next]_vars => Locks'
<1> SUFFICES ASSUME Values, Locks, [Next]_vars PROVE Locks'
  OBVIOUS
<1>a. Nobody \notin Actors /\ Tools \subseteq Actors /\ Menus \subseteq Actors
  BY ActorsAssumption DEF Actors
<1>b. \A t \in Tools : t \notin Menus /\ t # Task
  BY ActorsAssumption
<1>1. CASE UNCHANGED <<act, conf, cfg, file, lock, mishaps>>
  BY <1>1 DEF Locks, Saving
<1>2. CASE Fresh'
  BY <1>2, LocksFresh, PTL
<1>3. ASSUME NEW a \in Actors, Plain(a) PROVE Locks'
  <2>1. ~Saving(a) /\ ~Saving(a)'
    BY <1>3 DEF Plain, Outside, Saving
  <2>2. /\ UNCHANGED <<conf, lock>>
        /\ \A b \in Actors : b # a => act'[b] = act[b]
    BY <1>3 DEF Plain, Only
  <2> QED
    BY <1>a, <2>1, <2>2 DEF Locks, Saving
<1>4. ASSUME NEW a \in Actors, Reconfigured(a) PROVE Locks'
  <2>1. lock = Nobody /\ lock' = a /\ Saving(a)' /\ conf' = act'[a].val
    BY <1>4 DEF Reconfigured, Saving
  <2>2. \A b \in Actors : b # a => act'[b].pc = act[b].pc
    BY <1>4 DEF Reconfigured, Alike
  <2>3. ASSUME NEW t \in Tools, Saving(t)' PROVE t = a
    <3>1. CASE t # a
      <4>1. Saving(t)
        BY <1>a, <2>2, <2>3, <3>1 DEF Saving
      <4> QED
        BY <1>a, <2>1, <4>1 DEF Locks
    <3> QED
      BY <3>1
  <2> QED
    BY <2>1, <2>3 DEF Locks
<1>5. ASSUME NEW a \in Actors, UpdateConfig(a) PROVE Locks'
  <2>1. CASE lock' = lock
    <3>1. /\ Only(a) /\ ~Saving(a) /\ ~Saving(a)' /\ conf' = conf
      BY <1>5, <2>1, RefusedEffect DEF Saving
    <3> QED
      BY <1>a, <2>1, <3>1 DEF Only, Locks, Saving
  <2>2. CASE lock' # lock
    BY <1>4, <1>5, <2>2, UpdateEffect
  <2> QED
    BY <2>1, <2>2
<1>6. ASSUME NEW a \in Actors, Handler(a) PROVE Locks'
  <2>1. /\ Only(a) /\ Same(a) /\ Saving(a) /\ conf' = conf
        /\ \/ Saving(a)' /\ lock' = lock
           \/ ~Saving(a)' /\ lock' = IF lock = a THEN Nobody ELSE lock
    BY <1>6, HandlerEffect DEF Saving
  <2>2. lock' # Nobody =>
          lock' \in Actors /\ Saving(lock)' /\ conf' = act'[lock'].val
    <3>1. CASE lock' = lock
      BY <2>1, <3>1 DEF Locks, Only, Same, Saving
    <3>2. CASE lock' # lock
      BY <2>1, <3>2
    <3> QED
      BY <3>1, <3>2
  <2>3. ASSUME NEW t \in Tools, Saving(t)' PROVE lock' = t
    <3>1. Saving(t)
      BY <1>a, <2>1, <2>3 DEF Only, Saving
    <3>2. lock = t
      BY <3>1 DEF Locks
    <3> QED
      BY <1>a, <2>1, <2>3, <3>2
  <2> QED
    BY <2>2, <2>3 DEF Locks
<1>7. ASSUME NEW m \in Menus,
             MenuChange(m) \/ MenuFlip(m) \/ Snapshot(m) \/ Notify(m)
      PROVE  Locks'
  <2>1. Only(m) /\ ~Saving(m) /\ UNCHANGED <<conf, lock>>
    BY <1>7, ChangeEffect, FlipEffect, ReadEffect DEF Saving
  <2>2. lock # m
    BY <1>a, <2>1 DEF Locks
  <2> QED
    BY <1>a, <1>b, <2>1, <2>2 DEF Only, Locks, Saving
<1> QED
  BY <1>1, <1>2, <1>3, <1>4, <1>5, <1>6, <1>7, Kinds, RenameEffect
     DEF Actors

\* A tool at its Connect, and one about to report.
Truth ==
  \A t \in Tools : /\ Ordered(t)
                   /\ At(t, "report") => act[t].opened \/ act[t].overtaken

LEMMA TruthFresh == Fresh => Truth
BY ActorsAssumption, FreshPcs DEF Truth, Ordered, At, Actors

\* Nothing happens to t, or it only may have been overtaken.
LEMMA TruthKept ==
  ASSUME Truth, NEW t \in Tools, Alike(t), conf' = conf \/ act'[t].overtaken
                                          \/ act[t].pc # "connect"
  PROVE  /\ Ordered(t)'
         /\ At(t, "report")' => act'[t].opened \/ act'[t].overtaken
BY DEF Truth, Alike, Ordered, At

LEMMA TruthStep == Values /\ Locks /\ Truth /\ [Next]_vars => Truth'
<1> SUFFICES ASSUME Values, Locks, Truth, [Next]_vars, NEW t \in Tools
             PROVE  /\ Ordered(t)'
                    /\ At(t, "report")' => act'[t].opened \/ act'[t].overtaken
  BY DEF Truth
<1>a. t \in Actors /\ t \notin Menus /\ t \notin {Task, Boot, Page}
  BY ActorsAssumption DEF Actors
<1>b. /\ Ordered(t)
      /\ At(t, "report") => act[t].opened \/ act[t].overtaken
  BY DEF Truth
<1>1. CASE UNCHANGED <<act, conf, cfg, file, lock, mishaps>>
  BY <1>1, <1>b DEF Ordered, At
<1>2. CASE Fresh'
  <2>1. Truth'
    BY <1>2, TruthFresh, PTL
  <2> QED
    BY <2>1 DEF Truth
<1>3. ASSUME NEW a \in Actors, Plain(a)
      PROVE  /\ Ordered(t)'
             /\ At(t, "report")' => act'[t].opened \/ act'[t].overtaken
  <2>1. CASE a = t
    BY <1>3, <1>b, <2>1 DEF Plain, Ordered, At
  <2>2. CASE a # t
    BY <1>3, <1>a, <1>b, <2>2 DEF Plain, Only, Ordered, At
  <2> QED
    BY <2>1, <2>2
<1>4. ASSUME NEW a \in Actors, Reconfigured(a)
      PROVE  /\ Ordered(t)'
             /\ At(t, "report")' => act'[t].opened \/ act'[t].overtaken
  <2>1. CASE a = t
    BY <1>4, <2>1 DEF Reconfigured, Ordered, At
  <2>2. CASE a # t
    <3>1. Alike(t) /\ (act[t].pc = "connect" => act'[t].overtaken)
      BY <1>4, <1>a, <2>2 DEF Reconfigured, Alike, At
    <3> QED
      BY <3>1, TruthKept
  <2> QED
    BY <2>1, <2>2
<1>5. ASSUME NEW a \in Actors, UpdateConfig(a)
      PROVE  /\ Ordered(t)'
             /\ At(t, "report")' => act'[t].opened \/ act'[t].overtaken
  <2>1. CASE lock' = lock
    <3>1. /\ Only(a) /\ conf' = conf
          /\ act'[a].pc \in {"notify", "recheck", "idle"}
      BY <1>5, <2>1, RefusedEffect
    <3> QED
      BY <1>a, <1>b, <3>1 DEF Only, Ordered, At
  <2>2. CASE lock' # lock
    BY <1>4, <1>5, <2>2, UpdateEffect
  <2> QED
    BY <2>1, <2>2
<1>6. ASSUME NEW a \in Actors, Handler(a)
      PROVE  /\ Ordered(t)'
             /\ At(t, "report")' => act'[t].opened \/ act'[t].overtaken
  <2>1. Only(a) /\ Same(a) /\ Saving(a) /\ conf' = conf
        /\ act'[a].pc \in {"assignrest", "truncate", "encode", "write",
                           "notify", "after", "boot", "idle", "connect"}
    BY <1>6, HandlerEffect
  <2>2. CASE a = t
    <3>1. lock = t /\ conf = act[t].val
      BY <1>a, <2>1, <2>2, ActorsAssumption DEF Locks
    <3>2. conf' = act'[t].val /\ act'[t].pc # "report"
      BY <2>1, <2>2, <3>1 DEF Same
    <3> QED
      BY <3>2 DEF Ordered, At
  <2>3. CASE a # t
    BY <1>a, <1>b, <2>1, <2>3 DEF Only, Ordered, At
  <2> QED
    BY <2>2, <2>3
<1>7. ASSUME NEW m \in Menus,
             MenuChange(m) \/ MenuFlip(m) \/ Snapshot(m) \/ Notify(m)
      PROVE  /\ Ordered(t)'
             /\ At(t, "report")' => act'[t].opened \/ act'[t].overtaken
  <2>1. Only(m) /\ conf' = conf /\ m # t
    BY <1>7, <1>a, ChangeEffect, FlipEffect, ReadEffect
  <2> QED
    BY <1>a, <1>b, <2>1 DEF Only, Ordered, At
<1> QED
  BY <1>1, <1>2, <1>3, <1>4, <1>5, <1>6, <1>7, Kinds, RenameEffect DEF Actors

LEMMA InitFresh == Init => Fresh
BY LoadedIsSaved DEF Init, Fresh

LEMMA ValuesHold == Spec => []Values
BY InitFresh, FreshValues, ValuesStep, PTL DEF Spec

LEMMA LocksHold == Spec => []Locks
BY InitFresh, LocksFresh, ValuesHold, LocksStep, PTL DEF Spec

\* serial_connect reports a success only if the port it was asked for was
\* open during the call, or others reconfigured the link between the call's
\* UpdateConfig and its Connect, for any number of calls, menus and pages
\* (serial_connect.go:58, 63).
THEOREM ConnectTellsTheTruth == Spec => []ConnectTruthful
<1>1. Truth => ConnectTruthful
  BY DEF Truth, ConnectTruthful
<1> QED
  BY <1>1, InitFresh, TruthFresh, ValuesHold, LocksHold, TruthStep, PTL
     DEF Spec

-----------------------------------------------------------------------------
(* The copies of the settings agree.                                        *)

\* A menu that has yet to call the handler, and one that will bring what is
\* in the shared settings to the link before.
Debt       == \E m \in Menus : act[m].pc \in {"snapshot", "update", "notify"}
Pushing(m) == \/ At(m, "snapshot")
              \/ At(m, "update") /\ act[m].val.port # NoPort
Pushed     == \E m \in Menus : Pushing(m)

Assigning(a) == act[a].pc \in {"assign", "assignrest"}

\* One handler at a time.
Sole == \A a, b \in Actors : Saving(a) /\ Saving(b) => a = b

\* The file, and what is about to be written to it.
FileKept ==
  /\ file = cfg \/ Debt \/ \E a \in Actors : Saving(a)
  /\ \A a \in Actors : act[a].pc \in {"encode", "write"} => file = Empty
  /\ \A a \in Actors : At(a, "write") => act[a].text = cfg \/ Debt

\* A handler that UpdateConfig runs brings the settings of the link, one that
\* the tray runs what it has read of the shared settings.
BringsLink(a) ==
  /\ act[a].val.port # NoPort
  /\ At(a, "assignrest") => /\ cfg.port # NoPort
                            /\ cfg.port = act[a].val.port \/ Pushed
BringsRead(a) ==
  /\ act[a].val.port # NoPort =>
       cfg.port # NoPort /\ (conf = act[a].val \/ Pushed)
  /\ At(a, "assignrest") /\ act[a].val.port = NoPort =>
       cfg.port = NoPort \/ Pushed
Brings == \A a \in Actors : Assigning(a) =>
            IF lock = a THEN BringsLink(a) ELSE BringsRead(a)

\* The link and the shared settings.
Linked == cfg.port = NoPort \/ conf = Serial(cfg) \/ Pushed
ConfKept == Linked \/ (lock # Nobody /\ Assigning(lock))

Agree == mishaps = {} => Sole /\ FileKept /\ Brings /\ ConfKept

LEMMA AgreeFresh == Fresh => Agree
<1> SUFFICES ASSUME Fresh PROVE Sole /\ FileKept /\ Brings /\ ConfKept
  BY DEF Agree
<1>1. \A a \in Actors : act[a].pc = IF a = Boot THEN "truncate" ELSE "idle"
  BY FreshPcs
<1>2. Boot \in Actors
  BY DEF Actors
<1>3. Sole /\ Brings
  BY <1>1 DEF Sole, Saving, Brings, Assigning
<1>4. FileKept
  BY <1>1, <1>2 DEF FileKept, Saving, At
<1>5. ConfKept
  BY DEF ConfKept, Linked, Fresh
<1> QED
  BY <1>3, <1>4, <1>5

\* A step that leaves the settings and whoever handles them alone.
LEMMA AgreeFrame ==
  ASSUME Values, Locks, Agree, UNCHANGED <<conf, cfg, file, lock>>,
         mishaps' = {} => mishaps = {}, NEW a \in Actors, Only(a),
         ~Saving(a), ~Saving(a)',
         Debt /\ mishaps' = {} => Debt', Pushed /\ mishaps' = {} => Pushed'
  PROVE  Agree'
<1> SUFFICES ASSUME mishaps' = {} PROVE (Sole /\ FileKept /\ Brings /\ ConfKept)'
  BY DEF Agree
<1>1. Sole /\ FileKept /\ Brings /\ ConfKept
  BY DEF Agree
<1>2. \A b \in Actors :
        /\ Saving(b)' <=> Saving(b)
        /\ Saving(b) => act'[b] = act[b]
  BY DEF Only, Saving
<1>3. Sole'
  BY <1>1, <1>2 DEF Sole
<1>4. FileKept'
  BY <1>1, <1>2 DEF FileKept, Saving, At
<1>5. Brings'
  <2> SUFFICES ASSUME NEW b \in Actors, Assigning(b)'
               PROVE  IF lock' = b THEN BringsLink(b)' ELSE BringsRead(b)'
    BY DEF Brings
  <2>1. Assigning(b) /\ act'[b] = act[b]
    BY <1>2 DEF Assigning, Saving
  <2> QED
    BY <1>1, <2>1 DEF Brings, BringsLink, BringsRead, At
<1>6. ConfKept'
  <2>1. CASE Linked
    BY <2>1 DEF Linked, ConfKept
  <2>2. CASE lock # Nobody /\ Assigning(lock)
    <3>1. lock \in Actors /\ act'[lock] = act[lock]
      BY <1>2, <2>2 DEF Locks
    <3> QED
      BY <2>2, <3>1 DEF ConfKept, Assigning
  <2> QED
    BY <1>1, <2>1, <2>2 DEF ConfKept
<1> QED
  BY <1>3, <1>4, <1>5, <1>6

LEMMA AgreePlain ==
  ASSUME Values, Locks, Agree, NEW a \in Actors, Plain(a) PROVE Agree'
<1>1. /\ Only(a) /\ ~Saving(a) /\ ~Saving(a)'
      /\ UNCHANGED <<conf, cfg, file, lock, mishaps>>
      /\ act[a].pc \notin {"snapshot", "update", "notify"}
  BY DEF Plain, Outside, Saving
<1>2. \A m \in Menus : m \in Actors /\ (m # a => act'[m] = act[m])
  BY <1>1 DEF Actors, Only
<1>3. (Debt => Debt') /\ (Pushed => Pushed')
  BY <1>1, <1>2 DEF Debt, Pushed, Pushing, At
<1> QED
  BY <1>1, <1>3, AgreeFrame

LEMMA AgreeRefused ==
  ASSUME Values, Locks, Agree, NEW a \in Actors, UpdateConfig(a), lock' = lock
  PROVE  Agree'
<1>1. /\ Only(a) /\ ~Saving(a) /\ ~Saving(a)' /\ act[a].pc = "update"
      /\ act'[a].pc = "notify" <=> a \in Menus
      /\ UNCHANGED <<conf, cfg, file, lock>>
      /\ mishaps' = mishaps \cup IF a \in Menus /\ act[a].val.port # NoPort
                                  THEN {"refused"} ELSE {}
  BY RefusedEffect DEF Saving
<1>2. \A m \in Menus : m \in Actors /\ (m # a => act'[m] = act[m])
  BY <1>1 DEF Actors, Only
<1>3. Debt => Debt'
  BY <1>1, <1>2 DEF Debt
<1>4. mishaps' = {} => mishaps = {} /\ ~(a \in Menus /\ act[a].val.port # NoPort)
  BY <1>1
<1>5. Pushed /\ mishaps' = {} => Pushed'
  BY <1>1, <1>2, <1>4 DEF Pushed, Pushing, At
<1> QED
  BY <1>1, <1>3, <1>4, <1>5, AgreeFrame

LEMMA CrossingNone ==
  ASSUME NEW a \in Actors, mishaps' = mishaps \cup Crossing(a), mishaps' = {}
  PROVE  mishaps = {} /\ \A b \in Actors \ {a} : ~Saving(b)
BY DEF Crossing

LEMMA AgreeReconfigured ==
  ASSUME Values, Locks, Agree, NEW a \in Actors, Reconfigured(a), ~Saving(a)
  PROVE  Agree'
<1> SUFFICES ASSUME mishaps' = {} PROVE (Sole /\ FileKept /\ Brings /\ ConfKept)'
  BY DEF Agree
<1>1. \A b \in Actors : ~Saving(b)
  BY CrossingNone DEF Reconfigured
<1>2. /\ lock' = a /\ act'[a].pc = "assign" /\ act'[a].val.port # NoPort
      /\ \A b \in Actors : b # a => act'[b].pc = act[b].pc
  BY DEF Reconfigured, Alike
<1>3. \A b \in Actors : Saving(b)' <=> b = a
  BY <1>1, <1>2 DEF Saving
<1>4. Sole'
  BY <1>3 DEF Sole
<1>5. FileKept'
  BY <1>2, <1>3 DEF FileKept, Saving, At
<1>6. Brings'
  BY <1>2, <1>3 DEF Brings, BringsLink, Assigning, Saving, At
<1>7. ConfKept'
  BY <1>2, ActorsAssumption DEF ConfKept, Assigning
<1> QED
  BY <1>4, <1>5, <1>6, <1>7

LEMMA AgreeMenu ==
  ASSUME Values, Locks, Agree, NEW m \in Menus,
         MenuChange(m) \/ MenuFlip(m)
  PROVE  Agree'
<1> SUFFICES ASSUME mishaps' = {} PROVE (Sole /\ FileKept /\ Brings /\ ConfKept)'
  BY DEF Agree
<1>1. /\ m \in Actors /\ Only(m) /\ act[m].pc \in {"change", "flip"}
      /\ UNCHANGED <<conf, lock, file, mishaps>>
      /\ \/ act'[m].pc = "snapshot"
         \/ act'[m].pc = "notify" /\ Serial(cfg') = Serial(cfg)
      /\ cfg'.port = cfg.port \/ cfg'.port # NoPort
  BY ChangeEffect, FlipEffect DEF Serial
<1>2. Sole /\ FileKept /\ Brings /\ ConfKept
  BY <1>1 DEF Agree
<1>3. /\ \A b \in Actors :
           /\ Saving(b)' <=> Saving(b)
           /\ Saving(b) => act'[b] = act[b]
      /\ Debt'
  BY <1>1 DEF Only, Saving, Debt
<1>4. Pushed => Pushed'
  <2>1. \A q \in Menus : q \in Actors /\ (q # m => act'[q] = act[q])
    BY <1>1 DEF Actors, Only
  <2> QED
    BY <1>1, <2>1 DEF Pushed, Pushing, At
<1>5. Pushed' \/ (Serial(cfg') = Serial(cfg) /\ cfg'.port = cfg.port)
  <2>1. CASE act'[m].pc = "snapshot"
    BY <2>1 DEF Pushed, Pushing, At
  <2>2. CASE Serial(cfg') = Serial(cfg)
    BY <2>2 DEF Serial
  <2> QED
    BY <1>1, <2>1, <2>2
<1>6. Sole'
  BY <1>2, <1>3 DEF Sole
<1>7. FileKept'
  BY <1>1, <1>2, <1>3 DEF FileKept, Saving, At
<1>8. Brings'
  <2> SUFFICES ASSUME NEW b \in Actors, Assigning(b)'
               PROVE  IF lock' = b THEN BringsLink(b)' ELSE BringsRead(b)'
    BY DEF Brings
  <2>1. Assigning(b) /\ act'[b] = act[b]
    BY <1>3 DEF Assigning, Saving
  <2>2. CASE lock = b
    BY <1>1, <1>2, <1>4, <1>5, <2>1, <2>2 DEF Brings, BringsLink, At
  <2>3. CASE lock # b
    BY <1>1, <1>2, <1>4, <1>5, <2>1, <2>3 DEF Brings, BringsRead, At
  <2> QED
    BY <1>1, <2>2, <2>3
<1>9. ConfKept'
  <2>1. CASE Linked
    BY <1>1, <1>4, <1>5, <2>1 DEF Linked, ConfKept
  <2>2. CASE lock # Nobody /\ Assigning(lock)
    <3>1. lock \in Actors /\ act'[lock] = act[lock]
      BY <1>3, <2>2 DEF Locks
    <3> QED
      BY <1>1, <2>2, <3>1 DEF ConfKept, Assigning
  <2> QED
    BY <1>2, <2>1, <2>2 DEF ConfKept
<1> QED
  BY <1>6, <1>7, <1>8, <1>9

LEMMA AgreeSnapshot ==
  ASSUME Values, Locks, Agree, NEW m \in Menus, Snapshot(m) PROVE Agree'
<1>1. /\ m \in Actors /\ Only(m) /\ act'[m].val = Serial(cfg)
      /\ act[m].pc = "snapshot" /\ act'[m].pc = "update"
      /\ UNCHANGED <<conf, cfg, lock, file, mishaps>>
  BY ReadEffect DEF Snapshot, At
<1>2. ~Saving(m) /\ ~Saving(m)'
  BY <1>1 DEF Saving
<1>3. \A q \in Menus : q \in Actors /\ (q # m => act'[q] = act[q])
  BY <1>1 DEF Actors, Only
<1>4. Debt => Debt'
  BY <1>1 DEF Debt
<1>5. CASE cfg.port # NoPort
  <2>1. Pushed'
    BY <1>1, <1>5 DEF Pushed, Pushing, At, Serial
  <2> QED
    BY <1>1, <1>2, <1>4, <2>1, AgreeFrame
<1>6. CASE cfg.port = NoPort
  <2> SUFFICES ASSUME mishaps' = {}
               PROVE  (Sole /\ FileKept /\ Brings /\ ConfKept)'
    BY DEF Agree
  <2>1. Sole /\ FileKept /\ Brings
    BY <1>1 DEF Agree
  <2>2. \A b \in Actors :
          /\ Saving(b)' <=> Saving(b)
          /\ Saving(b) => act'[b] = act[b]
    BY <1>1, <1>2 DEF Only, Saving
  <2>3. Sole'
    BY <2>1, <2>2 DEF Sole
  <2>4. FileKept'
    BY <1>1, <1>4, <2>1, <2>2 DEF FileKept, Saving, At
  <2>5. Brings'
    <3> SUFFICES ASSUME NEW b \in Actors, Assigning(b)'
                 PROVE  IF lock' = b THEN BringsLink(b)' ELSE BringsRead(b)'
      BY DEF Brings
    <3>1. Assigning(b) /\ act'[b] = act[b]
      BY <2>2 DEF Assigning, Saving
    <3> QED
      BY <1>1, <1>6, <2>1, <3>1 DEF Brings, BringsLink, BringsRead, At
  <2>6. ConfKept'
    BY <1>1, <1>6 DEF ConfKept, Linked
  <2> QED
    BY <2>3, <2>4, <2>5, <2>6
<1> QED
  BY <1>5, <1>6

LEMMA AgreeNotify ==
  ASSUME Values, Locks, Agree, NEW m \in Menus, Notify(m) PROVE Agree'
<1> SUFFICES ASSUME mishaps' = {} PROVE (Sole /\ FileKept /\ Brings /\ ConfKept)'
  BY DEF Agree
<1>1. /\ m \in Actors /\ Only(m) /\ act'[m].val = Serial(cfg)
      /\ act[m].pc = "notify" /\ act'[m].pc = "assign"
      /\ UNCHANGED <<conf, cfg, lock, file>>
      /\ mishaps' = mishaps \cup Crossing(m)
  BY ReadEffect DEF Notify, At
<1>2. mishaps = {} /\ \A b \in Actors : ~Saving(b)
  BY <1>1, CrossingNone DEF Saving
<1>3. lock = Nobody
  BY <1>2 DEF Locks
<1>4. \A b \in Actors : Saving(b)' <=> b = m
  BY <1>1, <1>2 DEF Only, Saving
<1>5. Sole'
  BY <1>4 DEF Sole
<1>6. FileKept'
  BY <1>1, <1>4 DEF FileKept, Saving, At
<1>7. Linked
  BY <1>2, <1>3 DEF Agree, ConfKept
<1>8. Pushed => Pushed'
  <2>1. \A q \in Menus : q \in Actors /\ (q # m => act'[q] = act[q])
    BY <1>1 DEF Actors, Only
  <2> QED
    BY <1>1, <2>1 DEF Pushed, Pushing, At
<1>9. Brings'
  <2> SUFFICES ASSUME NEW b \in Actors, Assigning(b)' PROVE BringsRead(b)' /\ lock' # b
    BY DEF Brings
  <2>1. b = m
    BY <1>4 DEF Assigning, Saving
  <2>2. lock' # b
    BY <1>1, <1>3, ActorsAssumption
  <2>3. act'[m].val.port = cfg.port
    BY <1>1 DEF Serial
  <2> QED
    BY <1>1, <1>7, <1>8, <2>1, <2>2, <2>3 DEF BringsRead, Linked, At
<1>10. ConfKept'
  BY <1>1, <1>7, <1>8 DEF Linked, ConfKept
<1> QED
  BY <1>5, <1>6, <1>9, <1>10

\* While a handles the settings nobody else does.
LEMMA Alone ==
  ASSUME Locks, Sole, NEW a \in Actors, Saving(a)
  PROVE  /\ \A b \in Actors : b # a => ~Saving(b)
         /\ lock = a \/ lock = Nobody
BY DEF Sole, Locks

\* A step of the handler pays nobody's debt but its own, which it has not.
LEMMA DebtsStay ==
  ASSUME NEW a \in Actors, Only(a), Saving(a)
  PROVE  (Debt => Debt') /\ (Pushed => Pushed')
<1>1. \A m \in Menus : m \in Actors /\ (m # a => act'[m] = act[m])
  BY DEF Actors, Only
<1>2. act[a].pc \notin {"snapshot", "update", "notify"}
  BY DEF Saving
<1> QED
  BY <1>1, <1>2 DEF Debt, Pushed, Pushing, At

LEMMA SameSettings ==
  ASSUME NEW c \in Conf, NEW d \in Conf, c.port = d.port, c.baud = d.baud
  PROVE  c = d
BY DEF Conf

LEMMA AgreeAssign ==
  ASSUME Values, Locks, Agree, NEW a \in Actors, Assign(a), mishaps = {}
  PROVE  (Sole /\ FileKept /\ Brings /\ ConfKept)'
<1>1. /\ Only(a) /\ act'[a].val = act[a].val
      /\ act[a].pc = "assign" /\ act'[a].pc = "assignrest"
      /\ cfg' \in Saved /\ cfg'.port = act[a].val.port /\ cfg'.baud = cfg.baud
      /\ UNCHANGED <<conf, lock, file, mishaps>>
  BY AssignEffect DEF Same
<1>2. Sole /\ Brings /\ ConfKept
  BY DEF Agree
<1>3. Saving(a) /\ Assigning(a)
  BY <1>1 DEF Saving, Assigning
<1>4. /\ \A b \in Actors : b # a => ~Saving(b)
      /\ lock = a \/ lock = Nobody
  BY <1>2, <1>3, Alone
<1>5. \A b \in Actors : Saving(b)' <=> b = a
  BY <1>1, <1>4 DEF Only, Saving
<1>6. Pushed => Pushed'
  BY <1>1, <1>3, DebtsStay
<1>7. Sole'
  BY <1>5 DEF Sole
<1>8. FileKept'
  BY <1>1, <1>5 DEF FileKept, Saving, At
<1>9. CASE lock = a
  <2>1. BringsLink(a)'
    BY <1>1, <1>2, <1>3, <1>9 DEF Brings, BringsLink
  <2>2. Brings'
    <3> SUFFICES ASSUME NEW b \in Actors, Assigning(b)'
                 PROVE  lock' = b /\ BringsLink(b)'
      BY DEF Brings
    <3>1. b = a
      BY <1>5 DEF Assigning, Saving
    <3> QED
      BY <1>1, <1>9, <2>1, <3>1
  <2>3. ConfKept'
    BY <1>1, <1>9, ActorsAssumption DEF ConfKept, Assigning
  <2> QED
    BY <1>7, <1>8, <2>2, <2>3
<1>10. CASE lock = Nobody
  <2>1. lock # a /\ BringsRead(a) /\ Linked
    BY <1>2, <1>3, <1>10, ActorsAssumption DEF Brings, ConfKept
  <2>2. BringsRead(a)'
    BY <1>1, <1>6, <2>1 DEF BringsRead, At
  <2>3. Brings'
    <3> SUFFICES ASSUME NEW b \in Actors, Assigning(b)'
                 PROVE  lock' # b /\ BringsRead(b)'
      BY DEF Brings
    <3>1. b = a
      BY <1>5 DEF Assigning, Saving
    <3> QED
      BY <1>1, <2>1, <2>2, <3>1
  <2>4. Linked'
    <3>1. CASE Pushed \/ act[a].val.port = NoPort
      BY <1>1, <1>6, <3>1 DEF Linked
    <3>2. CASE ~Pushed /\ act[a].val.port # NoPort
      <4>1. conf = act[a].val /\ conf = Serial(cfg)
        BY <2>1, <3>2 DEF BringsRead, Linked
      <4>2. Serial(cfg') = Serial(cfg)
        BY <1>1, <4>1 DEF Serial
      <4> QED
        BY <1>1, <4>1, <4>2 DEF Linked
    <3> QED
      BY <3>1, <3>2
  <2> QED
    BY <1>7, <1>8, <2>3, <2>4 DEF ConfKept
<1> QED
  BY <1>4, <1>9, <1>10

LEMMA AgreeAssignRest ==
  ASSUME Values, Locks, Agree, NEW a \in Actors, AssignRest(a), mishaps = {}
  PROVE  (Sole /\ FileKept /\ Brings /\ ConfKept)'
<1>1. /\ Only(a) /\ act[a].pc = "assignrest" /\ act'[a].pc = "truncate"
      /\ cfg' \in Saved /\ cfg'.port = cfg.port /\ cfg'.baud = act[a].val.baud
      /\ UNCHANGED <<conf, lock, file, mishaps>>
  BY AssignRestEffect
<1>2. Sole /\ Brings /\ ConfKept
  BY DEF Agree
<1>3. Saving(a) /\ Assigning(a)
  BY <1>1 DEF Saving, Assigning
<1>4. /\ \A b \in Actors : b # a => ~Saving(b)
      /\ lock = a \/ lock = Nobody
  BY <1>2, <1>3, Alone
<1>5. \A b \in Actors : (Saving(b)' <=> b = a) /\ ~Assigning(b)'
  BY <1>1, <1>4 DEF Only, Saving, Assigning
<1>6. Pushed => Pushed'
  BY <1>1, <1>3, DebtsStay
<1>7. Sole' /\ Brings'
  BY <1>5 DEF Sole, Brings
<1>8. FileKept'
  BY <1>1, <1>5 DEF FileKept, Saving, At
<1>9. conf \in Conf /\ Serial(cfg') \in Conf /\ act[a].val \in Conf
  BY <1>1 DEF Values, ActOK, Actor, Serial, Saved, Conf
<1>10. CASE lock = a
  <2>1. conf = act[a].val /\ (cfg.port = act[a].val.port \/ Pushed)
    BY <1>1, <1>2, <1>3, <1>10, ActorsAssumption
       DEF Brings, BringsLink, Locks, At
  <2>2. Linked'
    <3>1. CASE Pushed
      BY <1>6, <3>1 DEF Linked
    <3>2. CASE cfg.port = act[a].val.port
      <4>1. Serial(cfg').port = conf.port /\ Serial(cfg').baud = conf.baud
        BY <1>1, <2>1, <3>2 DEF Serial
      <4>2. Serial(cfg') = conf'
        BY <1>1, <1>9, <4>1, SameSettings
      <4> QED
        BY <4>2 DEF Linked
    <3> QED
      BY <2>1, <3>1, <3>2
  <2> QED
    BY <1>7, <1>8, <2>2 DEF ConfKept
<1>11. CASE lock = Nobody
  <2>1. BringsRead(a) /\ Linked
    BY <1>2, <1>3, <1>11, ActorsAssumption DEF Brings, ConfKept
  <2>2. Linked'
    <3>1. CASE Pushed \/ cfg.port = NoPort
      BY <1>1, <1>6, <3>1 DEF Linked
    <3>2. CASE ~Pushed /\ cfg.port # NoPort
      <4>1. act[a].val.port # NoPort
        BY <1>1, <2>1, <3>2 DEF BringsRead, At
      <4>2. conf = act[a].val /\ conf = Serial(cfg)
        BY <2>1, <3>2, <4>1 DEF BringsRead, Linked
      <4>3. Serial(cfg').port = conf.port /\ Serial(cfg').baud = conf.baud
        BY <1>1, <4>2 DEF Serial
      <4>4. Serial(cfg') = conf'
        BY <1>1, <1>9, <4>3, SameSettings
      <4> QED
        BY <4>4 DEF Linked
    <3> QED
      BY <3>1, <3>2
  <2> QED
    BY <1>7, <1>8, <2>2 DEF ConfKept
<1> QED
  BY <1>4, <1>10, <1>11

\* Saving leaves the settings alone and ends with the file as they are.
LEMMA AgreeSave ==
  ASSUME Values, Locks, Agree, NEW a \in Actors, mishaps' = {}, mishaps = {},
         Truncate(a) \/ Encode(a) \/ Write(a)
  PROVE  (Sole /\ FileKept /\ Brings /\ ConfKept)'
<1>1. /\ Only(a) /\ Saving(a) /\ ~Assigning(a) /\ ~Assigning(a)'
      /\ UNCHANGED <<conf, cfg>>
  BY TruncateEffect, EncodeEffect, WriteEffect, HandlerReturnsEffect
     DEF Saving, Assigning
<1>2. Sole /\ FileKept /\ ConfKept
  BY DEF Agree
<1>3. /\ \A b \in Actors : b # a => ~Saving(b)
      /\ lock = a \/ lock = Nobody
  BY <1>1, <1>2, Alone
<1>4. \A b \in Actors : (Saving(b)' => b = a) /\ ~Assigning(b)'
  BY <1>1, <1>3 DEF Only, Saving, Assigning
<1>5. (Debt => Debt') /\ (Pushed => Pushed')
  BY <1>1, DebtsStay
<1>6. Sole' /\ Brings'
  BY <1>4 DEF Sole, Brings
<1>7. ConfKept'
  <2>1. Linked
    BY <1>1, <1>2, <1>3 DEF ConfKept
  <2> QED
    BY <1>1, <1>5, <2>1 DEF Linked, ConfKept
<1>8. FileKept'
  <2>1. CASE Truncate(a)
    <3>1. act'[a].pc = "encode" /\ file' = Empty
      BY <2>1, TruncateEffect
    <3> QED
      BY <1>4, <3>1 DEF FileKept, Saving, At
  <2>2. CASE Encode(a)
    <3>1. /\ act[a].pc = "encode" /\ act'[a].pc = "write" /\ act'[a].text = cfg
          /\ UNCHANGED <<cfg, file>>
      BY <2>2, EncodeEffect
    <3> QED
      BY <1>2, <1>4, <3>1 DEF FileKept, Saving, At
  <2>3. CASE Write(a)
    <3>1. /\ act[a].pc = "write" /\ cfg' = cfg /\ ~Saving(a)'
          /\ file' = Written(file, act[a].text)
      BY <2>3, WriteEffect, HandlerReturnsEffect DEF Saving
    <3>2. file = Empty /\ (act[a].text = cfg \/ Debt)
      BY <1>2, <3>1 DEF FileKept, At
    <3>3. Empty \notin Saved /\ Empty # Torn
      BY ValuesAssumption
    <3>4. file' = act[a].text
      BY <3>1, <3>2, <3>3 DEF Written
    <3>5. file' = cfg' \/ Debt'
      BY <1>5, <3>1, <3>2, <3>4
    <3>6. \A b \in Actors : ~Saving(b)'
      BY <1>4, <3>1
    <3> QED
      BY <3>5, <3>6 DEF FileKept, Saving, At
  <2> QED
    BY <2>1, <2>2, <2>3
<1> QED
  BY <1>6, <1>7, <1>8

LEMMA AgreeHandler ==
  ASSUME Values, Locks, Agree, NEW a \in Actors, Handler(a) PROVE Agree'
<1> SUFFICES ASSUME mishaps' = {} PROVE (Sole /\ FileKept /\ Brings /\ ConfKept)'
  BY DEF Agree
<1>1. mishaps = {}
  BY DEF Handler, Assign, AssignRest, Truncate, Encode, Write
<1> QED
  BY <1>1, AgreeAssign, AgreeAssignRest, AgreeSave DEF Handler

LEMMA AgreeStep == Values /\ Locks /\ Agree /\ [Next]_vars => Agree'
<1> SUFFICES ASSUME Values, Locks, Agree, [Next]_vars PROVE Agree'
  OBVIOUS
<1>1. CASE UNCHANGED <<act, conf, cfg, file, lock, mishaps>>
  BY <1>1 DEF Agree, Sole, FileKept, Brings, BringsLink, BringsRead, ConfKept,
              Linked, Debt, Pushed, Pushing, Assigning, Saving, At
<1>2. CASE Fresh'
  BY <1>2, AgreeFresh, PTL
<1>3. CASE TaskRenames
  <2>1. Task \in Actors /\ Reconfigured(Task) /\ ~Saving(Task)
    BY <1>3, RenameEffect DEF Actors, Saving
  <2> QED
    BY <2>1, AgreeReconfigured
<1>4. ASSUME NEW a \in Actors, UpdateConfig(a) PROVE Agree'
  <2>1. CASE lock' = lock
    BY <1>4, <2>1, AgreeRefused
  <2>2. CASE lock' # lock
    <3>1. Reconfigured(a) /\ ~Saving(a)
      BY <1>4, <2>2, UpdateEffect DEF Saving
    <3> QED
      BY <3>1, AgreeReconfigured
  <2> QED
    BY <2>1, <2>2
<1> QED
  BY <1>1, <1>2, <1>3, <1>4, Kinds, AgreePlain, AgreeHandler, AgreeMenu,
     AgreeSnapshot, AgreeNotify

\* The manager, the shared settings and the file agree whenever nobody is at
\* work on them, for any number of menus, tools and settings, unless the
\* tray's handler crossed another's, its update was refused after it had
\* changed the settings, or a save failed (tray_windows.go:516, serve.go:687).
THEOREM CopiesAgree == Spec => []SettingsAgree
<1>1. Locks /\ Agree => SettingsAgree
  <2> SUFFICES ASSUME Locks, Agree, Quiet, mishaps = {}
               PROVE  file = cfg /\ (cfg.port # NoPort => conf = Serial(cfg))
    BY DEF SettingsAgree
  <2>1. \A a \in Actors : act[a].pc = "idle"
    BY DEF Quiet, At
  <2>2. ~Debt /\ ~Pushed /\ \A a \in Actors : ~Saving(a) /\ ~Assigning(a)
    BY <2>1 DEF Debt, Pushed, Pushing, Saving, Assigning, At, Actors
  <2>3. FileKept /\ ConfKept
    BY DEF Agree
  <2>4. lock = Nobody
    BY <2>2 DEF Locks
  <2> QED
    BY <2>2, <2>3, <2>4 DEF FileKept, ConfKept, Linked
<1> QED
  BY <1>1, InitFresh, AgreeFresh, ValuesHold, LocksHold, AgreeStep, PTL
     DEF Spec

-----------------------------------------------------------------------------
(* The types of what the lemmas above leave out.                            *)

Modes   == {"idle", "up", "recovering"}
Files   == Saved \cup {Empty, Torn, Nothing}
Hazards == {"crossed", "refused", "failed"}
Typed == /\ mode \in Modes /\ connectMu \in Tools \cup {Nobody}
         /\ file \in Files /\ mishaps \subseteq Hazards
         /\ calls \in 0 .. MaxCalls /\ restarts \in 0 .. MaxRestarts

LEMMA TypedInit == Init => Typed
BY ValuesAssumption DEF Init, Typed, Modes, Files, Hazards

LEMMA WrittenIsFile ==
  ASSUME NEW old \in Files, NEW text \in Saved PROVE Written(old, text) \in Files
BY DEF Written, Files

LEMMA TypedUpdate ==
  ASSUME Typed, NEW a \in Actors, UpdateConfig(a) PROVE Typed'
BY DEF UpdateConfig, Typed, Link!Reconfigure, Modes, Hazards, Crossing, linkVars

LEMMA TypedHandler ==
  ASSUME Values, Typed, NEW a \in Actors, Handler(a) PROVE Typed'
<1>1. act[a].text \in Saved
  BY DEF Values, ActOK, Actor
<1>2. file' \in Files
  <2>1. CASE Write(a)
    BY <1>1, <2>1, WrittenIsFile DEF Write, Typed
  <2>2. CASE Truncate(a)
    BY <2>2 DEF Truncate, Typed, Files
  <2> QED
    BY <2>1, <2>2 DEF Handler, Assign, AssignRest, Encode, Typed
<1>3. mishaps' \subseteq Hazards
  BY DEF Handler, Assign, AssignRest, Encode, Truncate, Write, Typed, Hazards
<1>4. UNCHANGED <<mode, connectMu, calls, restarts>>
  BY DEF Handler, Assign, AssignRest, Encode, Truncate, Write, linkVars
<1> QED
  BY <1>2, <1>3, <1>4 DEF Typed

\* Whoever connects or disconnects.
LEMMA TypedConnects ==
  ASSUME Typed, NEW a \in Actors,
         Connect(a) \/ Disconnect(a) \/ BootConnect
  PROVE  Typed'
<1>1. mode' \in Modes
  BY DEF Connect, Disconnect, BootConnect, ConnectTo, DisconnectLink, linkVars,
         Link!UserConnect, Link!UserDisconnect, Typed, Modes
<1>2. UNCHANGED <<connectMu, file, mishaps, calls, restarts>>
  BY DEF Connect, Disconnect, BootConnect
<1> QED
  BY <1>1, <1>2 DEF Typed

LEMMA TypedMenu == ASSUME Typed, NEW m \in Menus, Menu(m) PROVE Typed'
<1>1. mode' \in Modes /\ mishaps' \subseteq Hazards
  BY DEF Menu, MenuLook, MenuOff, MenuChange, MenuFlip, Snapshot, Notify,
         MenuAfter, MenuToggle, DisconnectLink, Link!UserDisconnect, Crossing,
         callVars, linkVars, Typed, Modes, Hazards
<1>2. UNCHANGED <<connectMu, file, calls, restarts>>
  BY DEF Menu, MenuLook, MenuOff, MenuChange, MenuFlip, Snapshot, Notify,
         MenuAfter, MenuToggle, callVars
<1> QED
  BY <1>1, <1>2 DEF Typed

LEMMA TypedTool == ASSUME Typed, NEW t \in Tools, Tool(t) PROVE Typed'
<1>1. connectMu' \in Tools \cup {Nobody}
  BY DEF Tool, ToolDisconnect, ToolMutex, ToolLook, ToolRecheck, ToolExisting,
         ToolReport, Unlock, callVars, Typed
<1>2. UNCHANGED <<mode, file, mishaps, calls, restarts>>
  BY DEF Tool, ToolDisconnect, ToolMutex, ToolLook, ToolRecheck, ToolExisting,
         ToolReport, callVars, linkVars
<1> QED
  BY <1>1, <1>2 DEF Typed

LEMMA TypedCalls ==
  ASSUME Typed, \/ \E m \in Menus : Click(m)
                \/ \E t \in Tools : ToolCall(t)
                \/ PageCommand
  PROVE  Typed'
<1>1. calls' = calls + 1 /\ calls < MaxCalls
  BY DEF Click, ToolCall, PageCommand, MayCall, Called
<1>2. UNCHANGED <<mode, connectMu, file, mishaps, restarts>>
  BY DEF Click, ToolCall, PageCommand, callVars, linkVars
<1>3. calls' \in 0 .. MaxCalls
  BY <1>1, ValuesAssumption DEF Typed
<1> QED
  BY <1>2, <1>3 DEF Typed

LEMMA TypedOthers ==
  ASSUME Typed, LinkMoves \/ TaskRenames \/ Restart PROVE Typed'
<1>1. CASE LinkMoves
  BY <1>1 DEF LinkMoves, Link!Drop, Link!AutoUp, Link!GiveUp, Typed, Modes
<1>2. CASE TaskRenames
  BY <1>2 DEF TaskRenames, Link!AutoRename, Crossing, Typed, Modes, Hazards
<1>3. CASE Restart
  <2>1. restarts' \in 0 .. MaxRestarts
    BY <1>3, ValuesAssumption DEF Restart, Typed
  <2>2. /\ mode' = "idle" /\ connectMu' = Nobody /\ mishaps' = {}
        /\ UNCHANGED <<file, calls>>
    BY <1>3 DEF Restart, Begin
  <2> QED
    BY <2>1, <2>2 DEF Typed, Modes
<1> QED
  BY <1>1, <1>2, <1>3

LEMMA TypedStep == Values /\ Typed /\ [Next]_vars => Typed'
<1> SUFFICES ASSUME Values, Typed, [Next]_vars PROVE Typed'
  OBVIOUS
<1>1. CASE UNCHANGED vars
  BY <1>1 DEF vars, linkVars, Typed
<1>2. ASSUME NEW a \in Actors, Step(a) PROVE Typed'
  BY <1>2, TypedUpdate, TypedHandler, TypedConnects, TypedMenu, TypedTool
     DEF Step
<1> QED
  BY <1>1, <1>2, TypedCalls, TypedOthers DEF Next

\* Every variable is of its type in every reachable state, the histories and
\* the copy in the file included: a file is empty, torn or one that Save wrote
\* (config.go), and sm.mu is held by an actor or by nobody.
THEOREM SettingsTypes == Spec => []TypeOK
<1>1. Values /\ Locks /\ Typed => TypeOK
  BY DEF Values, ActOK, Locks, Typed, TypeOK, Modes, Files, Hazards
<1>2. Spec => []Typed
  BY TypedInit, ValuesHold, TypedStep, PTL DEF Spec
<1> QED
  BY <1>1, <1>2, ValuesHold, LocksHold, PTL

-----------------------------------------------------------------------------
(* Who waits for whom.                                                      *)

\* serial_connect from its mutex to its return.
ConnectPcs == {"look", "update", "assign", "assignrest", "truncate", "encode",
               "write", "connect", "recheck", "existing", "report"}
Gate == connectMu # Nobody =>
          connectMu \in Tools /\ act[connectMu].pc \in ConnectPcs

\* A step of one actor leaves the others where they are.
LEMMA OthersStay ==
  ASSUME Values, NEW a \in Actors, Step(a), NEW b \in Actors, b # a
  PROVE  act'[b].pc = act[b].pc
<1>1. CASE Connect(a) \/ Disconnect(a) \/ (a = Boot /\ BootConnect)
  BY <1>1, PlainConnect, PlainRest DEF Plain, Only
<1>2. CASE a \in Menus /\ Menu(a)
  BY <1>2, PlainMenu, ChangeEffect, FlipEffect, ReadEffect
     DEF Menu, Plain, Only
<1>3. CASE a \in Tools /\ Tool(a)
  BY <1>3, PlainTool DEF Plain, Only
<1>4. CASE Handler(a)
  BY <1>4, HandlerEffect DEF Only
<1>5. CASE UpdateConfig(a)
  BY <1>5, RefusedEffect, UpdateEffect DEF Only, Reconfigured, Alike
<1> QED
  BY <1>1, <1>2, <1>3, <1>4, <1>5 DEF Step

\* serial_connect goes on inside, or returns and lets go of its mutex.
LEMMA GateOwn ==
  ASSUME Values, NEW t \in Tools, Step(t), connectMu = t,
         act[t].pc \in ConnectPcs
  PROVE  connectMu' = Nobody \/ (connectMu' = t /\ act'[t].pc \in ConnectPcs)
<1>1. t \in Actors /\ t \notin Menus /\ t # Boot /\ t # Task
  BY ActorsAssumption DEF Actors
<1>2. CASE UpdateConfig(t)
  <2>1. connectMu' = t
    BY <1>2 DEF UpdateConfig
  <2>2. CASE lock' = lock
    <3>1. act'[t].pc = "recheck"
      <4>1. RefusedTo(t) = "recheck" /\ "recheck" \in Pcs
        BY <1>1 DEF RefusedTo, Pcs
      <4>2. lock # t => Go(t, RefusedTo(t))
        BY <1>2, <2>2 DEF UpdateConfig
      <4>3. lock = Nobody /\ t # Nobody
        BY <1>1, <1>2, ActorsAssumption DEF UpdateConfig, Unlocked
      <4> QED
        BY <1>1, <4>1, <4>2, <4>3, GoOne DEF Values
    <3> QED
      BY <2>1, <3>1 DEF ConnectPcs
  <2>3. CASE lock' # lock
    BY <1>1, <1>2, <2>1, <2>3, UpdateEffect DEF Reconfigured, ConnectPcs
  <2> QED
    BY <2>2, <2>3
<1>3. CASE Handler(t)
  <2>1. SavedTo(t) = "connect"
    BY <1>1 DEF SavedTo
  <2>2. connectMu' = t
    BY <1>3 DEF Handler, Assign, AssignRest, Encode, Truncate, Write
  <2> QED
    BY <1>1, <1>3, <2>1, <2>2, HandlerEffect DEF ConnectPcs
<1>4. CASE Connect(t)
  <2>1. connectMu' = t
    BY <1>4 DEF Connect
  <2>2. CASE Go(t, "recheck")
    BY <1>1, <2>1, <2>2, GoOne DEF Values, Pcs, ConnectPcs
  <2>3. CASE Put(t, [act[t] EXCEPT !.pc = "report",
                                   !.opened = Opened(t, "up", conf)])
    <3>1. Plain(t)
      BY <1>1, <1>4, PlainConnect
    <3>2. act'[t] = [act[t] EXCEPT !.pc = "report",
                                   !.opened = Opened(t, "up", conf)]
      BY <1>1, <2>3 DEF Put, Values, ActOK
    <3>3. act'[t].pc = "report"
      <4>1. act[t] \in Actor
        BY <1>1 DEF Values, ActOK
      <4> QED
        BY <3>2, <4>1 DEF Actor
    <3> QED
      BY <2>1, <3>3 DEF ConnectPcs
  <2> QED
    BY <1>4, <2>2, <2>3 DEF Connect, ConnectTo
<1>5. CASE Tool(t)
  <2>1. CASE Return(t) /\ Unlock(t)
    BY <2>1 DEF Unlock
  <2>2. CASE UNCHANGED connectMu /\ \E p \in {"existing", "update"} : Go(t, p)
    <3>1. PICK p \in {"existing", "update"} : Go(t, p)
      BY <2>2
    <3>2. act'[t].pc = p
      BY <1>1, <3>1, GoOne DEF Values, Pcs
    <3> QED
      BY <2>2, <3>2 DEF ConnectPcs
  <2>3. CASE UNCHANGED connectMu
             /\ Put(t, [act[t] EXCEPT !.pc = "report",
                                      !.opened = @ \/ Opened(t, mode, conf)])
    <3>1. act'[t] = [act[t] EXCEPT !.pc = "report",
                                   !.opened = @ \/ Opened(t, mode, conf)]
      BY <1>1, <2>3 DEF Put, Values, ActOK
    <3>2. act'[t].pc = "report"
      <4>1. act[t] \in Actor
        BY <1>1 DEF Values, ActOK
      <4> QED
        BY <3>1, <4>1 DEF Actor
    <3> QED
      BY <2>3, <3>2 DEF ConnectPcs
  <2>4. ~ToolDisconnect(t) /\ ~ToolMutex(t)
    BY DEF ToolDisconnect, ToolMutex, At, ConnectPcs
  <2>5. CASE ToolLook(t)
    BY <2>2, <2>5 DEF ToolLook, callVars
  <2>6. CASE ToolRecheck(t)
    BY <2>1, <2>2, <2>6 DEF ToolRecheck
  <2>7. CASE ToolExisting(t) \/ ToolReport(t)
    BY <2>1, <2>3, <2>7 DEF ToolExisting, ToolReport
  <2> QED
    BY <1>5, <2>4, <2>5, <2>6, <2>7 DEF Tool
<1>6. ~Disconnect(t)
  BY DEF Disconnect, At, ConnectPcs
<1> QED
  BY <1>1, <1>2, <1>3, <1>4, <1>5, <1>6 DEF Step

LEMMA GateStep == Values /\ Gate /\ [Next]_vars => Gate'
<1> SUFFICES ASSUME Values, Gate, [Next]_vars PROVE Gate'
  OBVIOUS
<1>a. Nobody \notin Tools /\ Tools \subseteq Actors
  BY ActorsAssumption DEF Actors
\* Those who are inside serial_connect stay there.
<1>b. ASSUME UNCHANGED connectMu,
             \A t \in Tools : act[t].pc \in ConnectPcs =>
                                act'[t].pc \in ConnectPcs
      PROVE  Gate'
  BY <1>b DEF Gate
<1>1. CASE UNCHANGED vars \/ LinkMoves
  BY <1>1 DEF LinkMoves, vars, Gate
<1>2. CASE Restart
  BY <1>2 DEF Restart, Begin, Gate
<1>3. CASE TaskRenames
  <2>1. \A t \in Tools : act'[t].pc = act[t].pc
    BY <1>3, <1>a, RenameEffect, ActorsAssumption DEF Reconfigured, Alike
  <2> QED
    BY <1>3, <1>b, <2>1 DEF TaskRenames
<1>4. CASE \/ \E m \in Menus : Click(m)
           \/ \E t \in Tools : ToolCall(t)
           \/ PageCommand
  <2>1. PICK a \in Actors : Plain(a) /\ act[a].pc = "idle"
    BY <1>4, PlainMenu, PlainToolCall, PlainPage
       DEF Actors, Click, ToolCall, PageCommand, At
  <2>2. \A t \in Tools : act[t].pc \in ConnectPcs => act'[t] = act[t]
    BY <1>a, <2>1 DEF Plain, Only, ConnectPcs
  <2> QED
    BY <1>4, <1>b, <2>2 DEF Click, ToolCall, PageCommand, callVars
<1>5. ASSUME NEW a \in Actors, Step(a) PROVE Gate'
  <2>1. CASE connectMu = a
    BY <1>5, <1>a, <2>1, GateOwn, ActorsAssumption DEF Gate, Actors
  <2>2. CASE connectMu # a /\ connectMu' = connectMu
    BY <1>5, <1>a, <2>2, OthersStay DEF Gate
  <2>3. CASE connectMu # a /\ connectMu' # connectMu
    <3>1. a \in Tools /\ ToolMutex(a)
      BY <1>5, <2>3
         DEF Step, UpdateConfig, Handler, Assign, AssignRest, Encode, Truncate,
             Write, Connect, Disconnect, BootConnect, Menu, MenuLook, MenuOff,
             MenuChange, MenuFlip, Snapshot, Notify, MenuAfter, MenuToggle,
             Tool, ToolDisconnect, ToolLook, ToolRecheck, ToolExisting,
             ToolReport, Unlock, callVars
    <3>2. connectMu' = a /\ Go(a, "look")
      BY <3>1 DEF ToolMutex
    <3>3. act'[a].pc = "look"
      BY <3>2, GoOne DEF Values, Pcs
    <3> QED
      BY <3>1, <3>2, <3>3 DEF Gate, ConnectPcs
  <2> QED
    BY <2>1, <2>2, <2>3
<1> QED
  BY <1>1, <1>2, <1>3, <1>4, <1>5 DEF Next

\* Whoever waits for a mutex waits for someone who goes on, or who waits for
\* such a one in turn, for any number of menus and tools (manager.go:402,
\* serial_connect.go:43).
THEOREM NobodyWaitsForEver == Spec => []NobodyStuck
<1>1. Locks /\ Gate => NobodyStuck
  <2> SUFFICES ASSUME Locks, Gate, NEW a \in Actors, Waits(a)
               PROVE  \/ GoesOn(Holder(a))
                      \/ Waits(Holder(a)) /\ GoesOn(Holder(Holder(a)))
    BY DEF NobodyStuck
  <2>1. lock # Nobody => GoesOn(lock)
    BY DEF Locks, Saving, GoesOn, Waits, CallsManager, At
  <2>2. ASSUME NEW b \in Actors, ~At(b, "mutex"), ~At(b, "idle")
        PROVE  GoesOn(b) \/ (Waits(b) /\ GoesOn(Holder(b)))
    BY <2>1, <2>2 DEF GoesOn, Waits, Holder, Unlocked
  <2>3. CASE At(a, "mutex")
    <3>1. connectMu # Nobody
      BY <2>3 DEF Waits, CallsManager, At
    <3>2. /\ connectMu \in Actors /\ ~At(connectMu, "mutex")
          /\ ~At(connectMu, "idle")
      BY <3>1 DEF Gate, ConnectPcs, At, Actors
    <3> QED
      BY <2>2, <2>3, <3>2 DEF Holder
  <2>4. CASE ~At(a, "mutex")
    BY <2>1, <2>4 DEF Waits, Holder, Unlocked
  <2> QED
    BY <2>3, <2>4
<1>2. Init => Gate
  BY DEF Init, Gate
<1>3. Spec => []Gate
  BY <1>2, ValuesHold, GateStep, PTL DEF Spec
<1> QED
  BY <1>1, <1>3, LocksHold, PTL

=============================================================================
