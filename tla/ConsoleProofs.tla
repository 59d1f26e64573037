---------------------------- MODULE ConsoleProofs ----------------------------
(***************************************************************************)
(* For every set of hosts, ports and any length of the script: whatever    *)
(* keys are pressed in the two screens, the highlight is at the focus and  *)
(* the stars show the rule, the script and the rules in force are as       *)
(* Firewall has them, and the rule that the filter screen puts in force is *)
(* the one it shows, echo requests and ports of five digits apart.  The    *)
(* last needs what ipfw makes of a command, part by part: a part that      *)
(* holds the words of a line from n on leaves the words behind them to the *)
(* next one (Moves, HostMoves, OptionRead, ...).                           *)
(***************************************************************************)
EXTENDS Console, SequenceTheorems, WellFoundedInduction, TLAPS

-----------------------------------------------------------------------------
(* Drawing *)

Item == [line : Int, mark : Int]
NoField == 1..7 \cup 12..13 \cup 21..27
Drawn(bs, b, line, r) == FilterScreen!Draw(bs, b, line, r)

LEMMA AtItem ==
    ASSUME NEW items, NEW n \in Nat, DOMAIN items = 1..n, NEW v
    PROVE  /\ FilterScreen!At(items, v) \in 0..n
           /\ \A i \in 1..n : items[i] = v => FilterScreen!At(items, v) # 0
BY DEF FilterScreen!At

LEMMA MarkType ==
    ASSUME NEW b \in FilterScreen!BoxName, NEW r \in FilterScreen!Rules
    PROVE  FilterScreen!Mark(b, r) \in Int
<1> USE DEF FilterScreen!Rules
<1>1. FilterScreen!At(ActionItem, r.action) \in Int
  <2>1. DOMAIN ActionItem = 1..3
    BY DEF ActionItem
  <2>2. FilterScreen!At(ActionItem, r.action) \in 0..3
    BY <2>1, AtItem
  <2> QED
    BY <2>2
<1>2. FilterScreen!At(ProtocolItem, r.proto) \in Int
  <2>1. DOMAIN ProtocolItem = 1..4
    BY DEF ProtocolItem
  <2>2. FilterScreen!At(ProtocolItem, r.proto) \in 0..4
    BY <2>1, AtItem
  <2> QED
    BY <2>2
<1>3. FilterScreen!At(IfaceItem, r.ifs) \in Int
  <2>1. DOMAIN IfaceItem = 1..3
    BY DEF IfaceItem
  <2>2. FilterScreen!At(IfaceItem, r.ifs) \in 0..3
    BY <2>1, AtItem
  <2> QED
    BY <2>2
<1>4. FilterScreen!At(FilterScreen!OptionItem(r.proto), r.option) \in Int
  <2>1. DOMAIN TcpItem = 1..4 /\ DOMAIN IpItem = 1..4 /\ DOMAIN IcmpItem = 1..4 /\ DOMAIN FilterScreen!UdpItem = 1..0
    BY DEF TcpItem, IpItem, IcmpItem, FilterScreen!UdpItem
  <2>2. FilterScreen!OptionItem(r.proto) \in {TcpItem, IpItem, IcmpItem, FilterScreen!UdpItem}
    BY DEF FilterScreen!OptionItem
  <2> QED
    BY <2>1, <2>2, AtItem
<1> QED
  BY <1>1, <1>2, <1>3, <1>4 DEF FilterScreen!Mark

\* A box is drawn and the others stay.
LEMMA Draws ==
    ASSUME NEW bs \in [FilterScreen!BoxName -> Item], NEW b \in FilterScreen!BoxName, NEW line \in Int,
           NEW r \in FilterScreen!Rules
    PROVE  /\ Drawn(bs, b, line, r) \in [FilterScreen!BoxName -> Item]
           /\ \A c \in FilterScreen!BoxName :
                 /\ Drawn(bs, b, line, r)[c].line = IF c = b THEN line ELSE bs[c].line
                 /\ Drawn(bs, b, line, r)[c].mark = IF c = b THEN FilterScreen!Mark(b, r) ELSE bs[c].mark
BY MarkType DEF Drawn, FilterScreen!Draw, Item

LEMMA Places ==
    ASSUME NEW q \in NoField
    PROVE  FilterScreen!Box(q) \in FilterScreen!BoxName /\ FilterScreen!Line(q) \in Int
BY DEF NoField, FilterScreen!Box, FilterScreen!Line, FilterScreen!BoxName

-----------------------------------------------------------------------------
(* The filter screen *)

FilterInv ==
    /\ p \in 1..13 \cup 21..27
    /\ rule \in FilterScreen!Rules
    /\ boxes \in [FilterScreen!BoxName -> Item]
    /\ FilterScreen!FocusIsHighlighted
    /\ FilterScreen!MarksShowRule

\* With the rule as it was, the marks of what is drawn are those there were.
LEMMA SameRule ==
    ASSUME FilterInv, rule' = rule, p' \in 1..13 \cup 21..27,
           boxes' \in [FilterScreen!BoxName -> Item],
           \A b \in FilterScreen!BoxName : boxes'[b].mark = FilterScreen!Mark(b, rule),
           \A b \in FilterScreen!BoxName :
              boxes'[b].line = IF p' \in 8..11 \/ FilterScreen!Box(p') # b THEN 0
                               ELSE IF p' = 5 /\ boxes'[b].line = 1 THEN 1 ELSE FilterScreen!Line(p')
    PROVE  FilterInv'
BY DEF FilterInv, FilterScreen!FocusIsHighlighted, FilterScreen!MarksShowRule

LEMMA LeaveKeeps ==
    ASSUME FilterInv, rule' = rule, p \in NoField, NEW q \in NoField,
           FilterScreen!Leave(FilterScreen!Box(p), q)
    PROVE  FilterInv'
<1> DEFINE off == Drawn(boxes, FilterScreen!Box(p), 0, rule)
<1>1. off \in [FilterScreen!BoxName -> Item] /\ \A c \in FilterScreen!BoxName :
         off[c].line = 0 /\ off[c].mark = FilterScreen!Mark(c, rule)
  BY Draws, Places DEF FilterInv, FilterScreen!FocusIsHighlighted, FilterScreen!MarksShowRule, NoField
<1>2. boxes' = Drawn(off, FilterScreen!Box(q), FilterScreen!Line(q), rule) /\ p' = q
  BY DEF FilterScreen!Leave, Drawn
<1> HIDE DEF off
<1>3. boxes' \in [FilterScreen!BoxName -> Item] /\ \A c \in FilterScreen!BoxName :
         /\ boxes'[c].line = IF c = FilterScreen!Box(q) THEN FilterScreen!Line(q) ELSE 0
         /\ boxes'[c].mark = FilterScreen!Mark(c, rule)
  BY <1>1, <1>2, Draws, Places DEF FilterInv
<1> QED
  BY <1>2, <1>3, SameRule DEF NoField, FilterScreen!Line

LEMMA StepKeeps ==
    ASSUME FilterInv, rule' = rule, NEW q \in NoField, p \in 8..11 \/ FilterScreen!Box(p) = FilterScreen!Box(q),
           FilterScreen!Step(q)
    PROVE  FilterInv'
<1>1. boxes' = Drawn(boxes, FilterScreen!Box(q), FilterScreen!Line(q), rule) /\ p' = q
  BY DEF FilterScreen!Step, Drawn
<1>2. boxes' \in [FilterScreen!BoxName -> Item] /\ \A c \in FilterScreen!BoxName :
         /\ boxes'[c].line = IF c = FilterScreen!Box(q) THEN FilterScreen!Line(q) ELSE 0
         /\ boxes'[c].mark = FilterScreen!Mark(c, rule)
  BY <1>1, Draws, Places DEF FilterInv, FilterScreen!FocusIsHighlighted, FilterScreen!MarksShowRule
<1> QED
  BY <1>1, <1>2, SameRule DEF NoField, FilterScreen!Line

LEMMA EditFromKeeps ==
    ASSUME FilterInv, rule' = rule, NEW q \in 8..11, NEW b \in FilterScreen!BoxName,
           p \in 8..11 \/ FilterScreen!Box(p) = b, FilterScreen!EditFrom(b, q)
    PROVE  FilterInv'
<1>1. boxes' = Drawn(boxes, b, 0, rule) /\ p' = q
  BY DEF FilterScreen!EditFrom, Drawn
<1>2. boxes' \in [FilterScreen!BoxName -> Item] /\ \A c \in FilterScreen!BoxName :
         boxes'[c].line = 0 /\ boxes'[c].mark = FilterScreen!Mark(c, rule)
  BY <1>1, Draws DEF FilterInv, FilterScreen!FocusIsHighlighted, FilterScreen!MarksShowRule
<1> QED
  BY <1>1, <1>2, SameRule

LEMMA NextFieldKeeps ==
    ASSUME FilterInv, rule' = rule, p \in 8..11, p' \in 8..11, boxes' = boxes
    PROVE  FilterInv'
BY SameRule DEF FilterInv, FilterScreen!FocusIsHighlighted, FilterScreen!MarksShowRule

\* Every key but the space bar leaves the rule alone.
LEMMA MoveKeeps ==
    ASSUME FilterInv,
           FilterScreen!Down \/ FilterScreen!Left \/ FilterScreen!Right \/ FilterScreen!Up
    PROVE  FilterInv'
<1> USE DEF NoField
<1>0. p \in 1..13 \cup 21..27
  BY DEF FilterInv
<1>1. CASE FilterScreen!Down
  <2>1. CASE p \in {1, 2, 4, 5, 6, 12, 21, 22, 24, 25, 26}
    <3>1. FilterScreen!Step(p + 1) /\ rule' = rule
      BY <1>1, <2>1 DEF FilterScreen!Down
    <3>2. FilterScreen!Box(p) = FilterScreen!Box(p + 1)
      BY <2>1 DEF FilterScreen!Box
    <3> QED
      BY <2>1, <3>1, <3>2, StepKeeps
  <2>2. CASE p = 3
    BY <1>1, <2>2, LeaveKeeps DEF FilterScreen!Down, FilterScreen!Box
  <2>3. CASE p = 23
    BY <1>1, <2>3, LeaveKeeps DEF FilterScreen!Down, FilterScreen!Box
  <2>4. CASE p = 7
    BY <1>1, <2>4, EditFromKeeps DEF FilterScreen!Down, FilterScreen!Box, FilterScreen!BoxName
  <2>5. CASE p = 27
    <3>1. p' = 8 /\ rule' = rule /\ boxes' = Drawn(Drawn(boxes, "options", 0, rule), "protocol", 0, rule)
      BY <1>1, <2>5 DEF FilterScreen!Down, Drawn
    <3>2. FilterScreen!Box(p) = "options" /\ "options" \in FilterScreen!BoxName /\ "protocol" \in FilterScreen!BoxName
      BY <2>5 DEF FilterScreen!Box, FilterScreen!BoxName
    <3>3. \A c \in FilterScreen!BoxName :
             boxes[c].mark = FilterScreen!Mark(c, rule) /\ (c # "options" => boxes[c].line = 0)
      BY <2>5, <3>2 DEF FilterInv, FilterScreen!FocusIsHighlighted, FilterScreen!MarksShowRule
    <3>4. boxes' \in [FilterScreen!BoxName -> Item] /\ \A c \in FilterScreen!BoxName :
             boxes'[c].line = 0 /\ boxes'[c].mark = FilterScreen!Mark(c, rule)
      BY <3>1, <3>2, <3>3, Draws DEF FilterInv
    <3> QED
      BY <3>1, <3>4, SameRule
  <2> QED
    BY <1>0, <1>1, <2>1, <2>2, <2>3, <2>4, <2>5 DEF FilterScreen!Down
<1>2. CASE FilterScreen!Left
  BY <1>2, LeaveKeeps DEF FilterScreen!Left, FilterScreen!Box
<1>3. CASE FilterScreen!Right
  BY <1>3, LeaveKeeps DEF FilterScreen!Right, FilterScreen!Box
<1>4. CASE FilterScreen!Up
  <2>1. CASE p \in {1, 2, 3, 5, 6, 7, 13, 22, 23, 25, 26, 27}
    <3>1. PICK q \in NoField : FilterScreen!Step(q) /\ FilterScreen!Box(p) = FilterScreen!Box(q) /\ rule' = rule
      BY <1>4, <2>1 DEF FilterScreen!Up, FilterScreen!Box
    <3> QED
      BY <3>1, StepKeeps
  <2>2. CASE p = 4
    BY <1>4, <2>2, LeaveKeeps DEF FilterScreen!Up, FilterScreen!Box
  <2>3. CASE p = 24
    BY <1>4, <2>3, LeaveKeeps DEF FilterScreen!Up, FilterScreen!Box
  <2>4. CASE p = 21
    BY <1>4, <2>4, LeaveKeeps DEF FilterScreen!Up, FilterScreen!Box
  <2>5. CASE p = 12
    BY <1>4, <2>5, EditFromKeeps DEF FilterScreen!Up, FilterScreen!Box, FilterScreen!BoxName
  <2> QED
    BY <1>0, <1>4, <2>1, <2>2, <2>3, <2>4, <2>5 DEF FilterScreen!Up
<1> QED
  BY <1>1, <1>2, <1>3, <1>4

\* Tab from the directions is the one key that highlights another item than that of the focus.
LEMMA TabKeeps ==
    ASSUME FilterInv, FilterScreen!Tab
    PROVE  FilterInv'
<1> USE DEF NoField
<1>1. CASE p \in 1..3 \cup 4..7
  BY <1>1, LeaveKeeps DEF FilterScreen!Tab, FilterScreen!Box
<1>2. CASE p \in 21..23
  <2>1. p' = 5 /\ rule' = rule /\ boxes' = Drawn(Drawn(boxes, "iface", 0, rule), "protocol", 1, rule)
    BY <1>2 DEF FilterScreen!Tab, Drawn
  <2>2. FilterScreen!Box(p) = "iface" /\ "iface" \in FilterScreen!BoxName /\ "protocol" \in FilterScreen!BoxName
    BY <1>2 DEF FilterScreen!Box, FilterScreen!BoxName
  <2>3. \A c \in FilterScreen!BoxName :
           boxes[c].mark = FilterScreen!Mark(c, rule) /\ (c # "iface" => boxes[c].line = 0)
    BY <1>2, <2>2 DEF FilterInv, FilterScreen!FocusIsHighlighted, FilterScreen!MarksShowRule
  <2>4. boxes' \in [FilterScreen!BoxName -> Item] /\ \A c \in FilterScreen!BoxName :
           boxes'[c].line = (IF c = "protocol" THEN 1 ELSE 0) /\ boxes'[c].mark = FilterScreen!Mark(c, rule)
    BY <2>1, <2>2, <2>3, Draws DEF FilterInv
  <2>5. FilterScreen!Box(p') = "protocol"
    BY <2>1 DEF FilterScreen!Box
  <2> QED
    BY <2>1, <2>4, <2>5, SameRule
<1> QED
  BY <1>1, <1>2 DEF FilterScreen!Tab

LEMMA EditKeeps ==
    ASSUME FilterInv, NEW field, NEW t, NEW up \in BOOLEAN, FilterScreen!Edit(field, t, up)
    PROVE  FilterInv'
<1>1. p \in 8..11 /\ rule' = rule
  BY DEF FilterScreen!Edit
<1>2. CASE up /\ p = 8
  BY <1>1, <1>2, StepKeeps DEF FilterScreen!Edit, NoField
<1>3. CASE up /\ p # 8
  BY <1>1, <1>3, NextFieldKeeps DEF FilterScreen!Edit
<1>4. CASE ~up /\ p = 10
  BY <1>1, <1>4, EditFromKeeps DEF FilterScreen!Edit, FilterScreen!BoxName
<1>5. CASE ~up /\ p = 11
  BY <1>1, <1>5, StepKeeps DEF FilterScreen!Edit, NoField
<1>6. CASE ~up /\ p \in 8..9
  BY <1>1, <1>6, NextFieldKeeps DEF FilterScreen!Edit
<1> QED
  BY <1>1, <1>2, <1>3, <1>4, <1>5, <1>6

LEMMA OptionItems ==
    ASSUME NEW r \in FilterScreen!Rules, r.proto # "UDP"
    PROVE  /\ \A i \in 1..4 : FilterScreen!OptionItem(r.proto)[i] \in
                 {"ESTABLISHED", "SETUP", "FRAG", "SSRR", "LSRR", "TS", "ECHO_REQUEST", "DEST_UNREACH", "ECHO_REPLY", "NONE"}
           /\ FilterScreen!OptionItem(r.proto)[4] = "NONE"
           /\ (\E i \in 1..4 : FilterScreen!OptionItem(r.proto)[i] = r.option) => FilterScreen!Mark("options", r) # 0
<1>1. PICK items \in {TcpItem, IpItem, IcmpItem} : FilterScreen!OptionItem(r.proto) = items
  BY DEF FilterScreen!OptionItem, FilterScreen!Rules
<1>2. DOMAIN items = 1..4 /\ items[4] = "NONE" /\ \A i \in 1..4 : items[i] \in
          {"ESTABLISHED", "SETUP", "FRAG", "SSRR", "LSRR", "TS", "ECHO_REQUEST", "DEST_UNREACH", "ECHO_REPLY", "NONE"}
  BY DEF TcpItem, IpItem, IcmpItem
<1>3. (\E i \in 1..4 : items[i] = r.option) => FilterScreen!At(items, r.option) # 0
  BY <1>2, AtItem
<1> QED
  BY <1>1, <1>2, <1>3 DEF FilterScreen!Mark

\* The space bar changes the rule and draws the boxes that show what it changed.
LEMMA SpaceKeeps ==
    ASSUME FilterInv, FilterScreen!Space
    PROVE  FilterInv'
<1> USE DEF FilterScreen!Rules
<1> DEFINE own == Drawn(boxes, FilterScreen!Box(p), FilterScreen!Line(p), rule')
<1>1. /\ p \in 1..7 \cup 21..27 /\ p' = p /\ rule' = FilterScreen!Chosen
      /\ boxes' = IF FilterScreen!Box(p) = "protocol" THEN Drawn(own, "options", 0, rule')
                  ELSE IF FilterScreen!Box(p) = "options" /\ rule.proto = "UDP" THEN boxes ELSE own
  BY DEF FilterScreen!Space, Drawn
<1>2. /\ FilterScreen!Box(p) \in FilterScreen!BoxName /\ FilterScreen!Line(p) \in Int
      /\ \A c \in FilterScreen!BoxName : boxes[c].mark = FilterScreen!Mark(c, rule)
                                        /\ (c # FilterScreen!Box(p) => boxes[c].line = 0)
  BY <1>1, Places DEF FilterInv, FilterScreen!FocusIsHighlighted, FilterScreen!MarksShowRule, NoField
<1>3. SUFFICES
        /\ rule' \in FilterScreen!Rules
        /\ \A c \in FilterScreen!BoxName \ {FilterScreen!Box(p)} :
              \/ c = "options" /\ FilterScreen!Box(p) = "protocol"
              \/ FilterScreen!Mark(c, rule') = FilterScreen!Mark(c, rule)
        /\ FilterScreen!Box(p) = "options" /\ rule.proto = "UDP" => rule' = rule
        /\ rule'.proto # "UDP" => FilterScreen!Mark("options", rule') # 0
  <2>1. own \in [FilterScreen!BoxName -> Item] /\ \A c \in FilterScreen!BoxName :
           /\ own[c].line = IF c = FilterScreen!Box(p) THEN FilterScreen!Line(p) ELSE 0
           /\ own[c].mark = IF c = FilterScreen!Box(p) THEN FilterScreen!Mark(c, rule') ELSE FilterScreen!Mark(c, rule)
    BY <1>2, <1>3, Draws DEF FilterInv
  <2> HIDE DEF own
  <2>2. CASE FilterScreen!Box(p) = "protocol"
    <3>1. "options" \in FilterScreen!BoxName
      BY DEF FilterScreen!BoxName
    <3>2. boxes' \in [FilterScreen!BoxName -> Item] /\ \A c \in FilterScreen!BoxName :
             /\ boxes'[c].line = IF c = FilterScreen!Box(p) THEN FilterScreen!Line(p) ELSE 0
             /\ boxes'[c].mark = FilterScreen!Mark(c, rule')
      BY <1>1, <1>3, <2>1, <2>2, <3>1, Draws
    <3> QED
      BY <1>1, <1>3, <3>2 DEF FilterInv, FilterScreen!FocusIsHighlighted, FilterScreen!MarksShowRule, FilterScreen!Line
  <2>3. CASE FilterScreen!Box(p) = "options" /\ rule.proto = "UDP"
    BY <1>1, <1>3, <2>3 DEF FilterInv, FilterScreen!FocusIsHighlighted, FilterScreen!MarksShowRule
  <2>4. CASE FilterScreen!Box(p) # "protocol" /\ ~(FilterScreen!Box(p) = "options" /\ rule.proto = "UDP")
    <3>1. boxes' = own
      BY <1>1, <2>4
    <3> QED
      BY <1>1, <1>3, <2>1, <2>4, <3>1 DEF FilterInv, FilterScreen!FocusIsHighlighted, FilterScreen!MarksShowRule, FilterScreen!Line
  <2> QED
    BY <2>2, <2>3, <2>4
<1> HIDE DEF own
<1>4. rule \in FilterScreen!Rules /\ (rule.proto # "UDP" => FilterScreen!Mark("options", rule) # 0)
  BY DEF FilterInv, FilterScreen!MarksShowRule
<1>5. CASE p \in 1..3
  <2>1. FilterScreen!Box(p) = "action" /\ rule' = [rule EXCEPT !.action = ActionItem[p]] /\ ActionItem[p] \in {"ALLOW", "DENY", "RESET"}
    BY <1>1, <1>5 DEF FilterScreen!Box, FilterScreen!Chosen, ActionItem
  <2> QED
    BY <1>4, <2>1 DEF FilterScreen!Mark
<1>6. CASE p \in {4, 5, 7}
  <2>1. /\ FilterScreen!Box(p) = "protocol"
        /\ rule' = [rule EXCEPT !.proto = ProtocolItem[p - 3], !.option = "NONE"]
        /\ ProtocolItem[p - 3] \in {"TCP", "IP", "ICMP"}
    BY <1>1, <1>6 DEF FilterScreen!Box, FilterScreen!Chosen, ProtocolItem
  <2>2. rule' \in FilterScreen!Rules /\ rule'.proto # "UDP" /\ rule'.option = "NONE"
    BY <1>4, <2>1
  <2>3. FilterScreen!Mark("options", rule') # 0
    BY <2>2, OptionItems
  <2> QED
    BY <1>4, <2>1, <2>2, <2>3 DEF FilterScreen!Mark
<1>7. CASE p = 6
  <2>1. FilterScreen!Box(p) = "protocol" /\ rule' = [rule EXCEPT !.proto = "UDP"]
    BY <1>1, <1>7 DEF FilterScreen!Box, FilterScreen!Chosen
  <2> QED
    BY <1>4, <2>1 DEF FilterScreen!Mark
<1>8. CASE p \in 21..23
  <2>1. /\ FilterScreen!Box(p) = "iface" /\ rule' = [rule EXCEPT !.ifs = IfaceItem[p - 20]]
        /\ IfaceItem[p - 20] \in {"INCOMING", "OUTGOING", "ANY"}
    BY <1>1, <1>8 DEF FilterScreen!Box, FilterScreen!Chosen, IfaceItem
  <2> QED
    BY <1>4, <2>1 DEF FilterScreen!Mark
<1>9. CASE p \in 24..27 /\ rule.proto = "UDP"
  <2>1. FilterScreen!Box(p) = "options" /\ rule' = rule
    BY <1>1, <1>9 DEF FilterScreen!Box, FilterScreen!Chosen
  <2> QED
    BY <1>4, <2>1
<1>10. CASE p \in 24..27 /\ rule.proto # "UDP"
  <2>1. FilterScreen!Box(p) = "options" /\ rule' = [rule EXCEPT !.option = FilterScreen!OptionItem(rule.proto)[p - 23]]
    BY <1>1, <1>10 DEF FilterScreen!Box, FilterScreen!Chosen
  <2>2. p - 23 \in 1..4
    BY <1>10
  <2>3. rule' \in FilterScreen!Rules /\ rule'.proto = rule.proto /\ rule'.option = FilterScreen!OptionItem(rule'.proto)[p - 23]
    BY <1>4, <1>10, <2>1, <2>2, OptionItems
  <2>4. FilterScreen!Mark("options", rule') # 0
    BY <1>10, <2>2, <2>3, OptionItems
  <2> QED
    BY <1>4, <1>10, <2>1, <2>3, <2>4 DEF FilterScreen!Mark
<1> QED
  BY <1>1, <1>5, <1>6, <1>7, <1>8, <1>9, <1>10

LEMMA KeyKeeps ==
    ASSUME FilterInv, FilterScreen!Key
    PROVE  FilterInv'
BY MoveKeeps, TabKeeps, SpaceKeeps, EditKeeps DEF FilterScreen!Key

LEMMA OpenedShows ==
    /\ FilterScreen!Initial \in FilterScreen!Rules
    /\ FilterScreen!Opened \in [FilterScreen!BoxName -> Item]
    /\ \A b \in FilterScreen!BoxName :
          /\ FilterScreen!Opened[b].line = IF b = "action" THEN 1 ELSE 0
          /\ FilterScreen!Opened[b].mark = FilterScreen!Mark(b, FilterScreen!Initial)
    /\ FilterScreen!Mark("options", FilterScreen!Initial) # 0
<1>1. FilterScreen!Initial \in FilterScreen!Rules
  BY DEF FilterScreen!Initial, FilterScreen!Rules
<1>2. \A b \in FilterScreen!BoxName : FilterScreen!Mark(b, FilterScreen!Initial) \in Int
  BY <1>1, MarkType
<1>3. FilterScreen!Opened \in [FilterScreen!BoxName -> Item]
      /\ \A b \in FilterScreen!BoxName :
            /\ FilterScreen!Opened[b].line = IF b = "action" THEN 1 ELSE 0
            /\ FilterScreen!Opened[b].mark = FilterScreen!Mark(b, FilterScreen!Initial)
  BY <1>2 DEF FilterScreen!Opened, FilterScreen!BoxName, Item
<1>4. FilterScreen!Initial.proto # "UDP" /\ FilterScreen!Initial.option = "NONE"
  BY DEF FilterScreen!Initial
<1>5. FilterScreen!Mark("options", FilterScreen!Initial) # 0
  BY <1>1, <1>4, OptionItems
<1> QED
  BY <1>1, <1>3, <1>5

LEMMA FilterOpened ==
    /\ FilterScreen!FormInit => FilterInv
    /\ FilterScreen!Open => FilterInv'
BY OpenedShows DEF FilterInv, FilterScreen!FormInit, FilterScreen!Open, FilterScreen!FocusIsHighlighted,
                   FilterScreen!MarksShowRule, FilterScreen!Box, FilterScreen!Line

-----------------------------------------------------------------------------
(* The forwarding screen *)

ForwardBoxes == [{"protocol", "buttons"} -> Item]
ForwardInv ==
    /\ p \in 1..10
    /\ rule \in [action : {"FWD"}, proto : {"TCP", "UDP"}]
    /\ boxes \in ForwardBoxes
    /\ ForwardScreen!ForwardShowsFocus

LEMMA DrawsProtocols ==
    ASSUME NEW bs \in ForwardBoxes, NEW line \in Int, NEW r \in [action : {"FWD"}, proto : {"TCP", "UDP"}]
    PROVE  /\ ForwardScreen!DrawForward(bs, line, r) \in ForwardBoxes
           /\ ForwardScreen!DrawForward(bs, line, r)["protocol"].line = line
           /\ ForwardItem[ForwardScreen!DrawForward(bs, line, r)["protocol"].mark] = r.proto
           /\ ForwardScreen!DrawForward(bs, line, r)["buttons"] = bs["buttons"]
<1> DEFINE m == CHOOSE i \in DOMAIN ForwardItem : ForwardItem[i] = r.proto
<1>1. m \in Int /\ ForwardItem[m] = r.proto
  BY DEF ForwardItem
<1>2. ForwardScreen!DrawForward(bs, line, r) = [bs EXCEPT !["protocol"] = [line |-> line, mark |-> m]]
  BY DEF ForwardScreen!DrawForward
<1> HIDE DEF m
<1> QED
  BY <1>1, <1>2 DEF ForwardBoxes, Item

LEMMA DrawsButtons ==
    ASSUME NEW bs \in ForwardBoxes, NEW line \in Int
    PROVE  /\ ForwardScreen!Buttons(bs, line) \in ForwardBoxes
           /\ ForwardScreen!Buttons(bs, line)["buttons"].line = line
           /\ ForwardScreen!Buttons(bs, line)["protocol"] = bs["protocol"]
BY DEF ForwardScreen!Buttons, ForwardBoxes, Item

LEMMA ItemShown ==
    ASSUME ForwardInv, NEW q \in 1..2 \cup 9..10
    PROVE  /\ ForwardScreen!Item(q) \in ForwardBoxes
           /\ q \in 1..2 => /\ ForwardScreen!Item(q)["protocol"].line = q
                            /\ ForwardScreen!Item(q)["buttons"] = boxes["buttons"]
           /\ q \in 9..10 => /\ ForwardScreen!Item(q)["buttons"].line = q - 8
                             /\ ForwardScreen!Item(q)["protocol"] = boxes["protocol"]
           /\ ForwardItem[ForwardScreen!Item(q)["protocol"].mark] = rule.proto
<1>1. boxes \in ForwardBoxes /\ rule \in [action : {"FWD"}, proto : {"TCP", "UDP"}]
      /\ ForwardItem[boxes["protocol"].mark] = rule.proto
  BY DEF ForwardInv, ForwardScreen!ForwardShowsFocus
<1>2. CASE q \in 1..2
  <2>1. ForwardScreen!Item(q) = ForwardScreen!DrawForward(boxes, q, rule) /\ q \in Int /\ ~(q \in 9..10)
    BY <1>2 DEF ForwardScreen!Item
  <2> QED
    BY <1>1, <2>1, DrawsProtocols
<1>3. CASE q \in 9..10
  <2>1. PICK n \in Int : n = q - 8
    OBVIOUS
  <2>2. ForwardScreen!Item(q) = ForwardScreen!Buttons(boxes, n) /\ ~(q \in 1..2)
    BY <1>3, <2>1 DEF ForwardScreen!Item
  <2>3. /\ ForwardScreen!Buttons(boxes, n) \in ForwardBoxes
        /\ ForwardScreen!Buttons(boxes, n)["buttons"].line = n
        /\ ForwardScreen!Buttons(boxes, n)["protocol"] = boxes["protocol"]
    BY <1>1, DrawsButtons
  <2>4. ForwardItem[ForwardScreen!Item(q)["protocol"].mark] = rule.proto
    BY <1>1, <2>2, <2>3
  <2> QED
    BY <2>1, <2>2, <2>3, <2>4
<1> QED
  BY <1>2, <1>3

LEMMA ForwardEditKeeps ==
    ASSUME ForwardInv, NEW field, NEW t, NEW up \in BOOLEAN, ForwardScreen!ForwardEdit(field, t, up)
    PROVE  ForwardInv'
<1>1. p \in 3..8 /\ rule' = rule /\ p' = IF up THEN p - 1 ELSE p + 1
  BY DEF ForwardScreen!ForwardEdit
<1>2. CASE up /\ p = 3
  <2>1. boxes' = ForwardScreen!Item(2)
    BY <1>2 DEF ForwardScreen!ForwardEdit
  <2> QED
    BY <1>1, <1>2, <2>1, ItemShown DEF ForwardInv, ForwardScreen!ForwardShowsFocus
<1>3. CASE ~up /\ p = 8
  <2>1. boxes' = ForwardScreen!Item(9)
    BY <1>3 DEF ForwardScreen!ForwardEdit
  <2> QED
    BY <1>1, <1>3, <2>1, ItemShown DEF ForwardInv, ForwardScreen!ForwardShowsFocus
<1>4. CASE ~up /\ p = 7
  <2>1. boxes' = ForwardScreen!Buttons(boxes, 0)
    BY <1>4 DEF ForwardScreen!ForwardEdit
  <2> QED
    BY <1>1, <1>4, <2>1, DrawsButtons DEF ForwardInv, ForwardScreen!ForwardShowsFocus
<1>5. CASE ~(up /\ p = 3) /\ ~(~up /\ p \in 7..8)
  <2>1. boxes' = boxes
    BY <1>5 DEF ForwardScreen!ForwardEdit
  <2> QED
    BY <1>1, <1>5, <2>1 DEF ForwardInv, ForwardScreen!ForwardShowsFocus
<1> QED
  BY <1>1, <1>2, <1>3, <1>4, <1>5

LEMMA ForwardKeyKeeps ==
    ASSUME ForwardInv, ForwardScreen!ForwardKey
    PROVE  ForwardInv'
<1> USE DEF ForwardInv, ForwardScreen!ForwardShowsFocus
<1>1. CASE ForwardScreen!ForwardDown
  <2>1. CASE p \in {1, 9}
    <3>1. p + 1 \in 1..2 \cup 9..10 /\ p' = p + 1 /\ boxes' = ForwardScreen!Item(p + 1) /\ rule' = rule
      BY <1>1, <2>1 DEF ForwardScreen!ForwardDown
    <3> DEFINE q == p + 1
    <3>2. q \in 1..2 \cup 9..10 /\ p' = q /\ boxes' = ForwardScreen!Item(q) /\ rule' = rule
      BY <3>1
    <3>3. (q \in 1..2 => p \in 1..2) /\ (q \in 9..10 => p \in 9..10) /\ q = p + 1
      BY <2>1
    <3> HIDE DEF q
    <3>4. /\ boxes' \in ForwardBoxes /\ ForwardItem[boxes'["protocol"].mark] = rule'.proto
          /\ q \in 1..2 => boxes'["protocol"].line = q /\ boxes'["buttons"].line = boxes["buttons"].line
          /\ q \in 9..10 => boxes'["buttons"].line = q - 8 /\ boxes'["protocol"].line = boxes["protocol"].line
      BY <3>2, ItemShown
    <3>5. boxes["protocol"].line = (IF p \in 1..2 THEN p ELSE 0) /\ boxes["buttons"].line = (IF p \in 9..10 THEN p - 8 ELSE 0)
      OBVIOUS
    <3> QED
      BY <2>1, <3>2, <3>3, <3>4, <3>5
  <2>2. CASE p = 2
    <3>1. p' = 3 /\ rule' = rule /\ boxes' = ForwardScreen!DrawForward(boxes, 0, rule)
      BY <1>1, <2>2 DEF ForwardScreen!ForwardDown
    <3>2. boxes \in ForwardBoxes /\ rule \in [action : {"FWD"}, proto : {"TCP", "UDP"}] /\ boxes["buttons"].line = 0
      BY <2>2
    <3>3. /\ boxes' \in ForwardBoxes /\ boxes'["protocol"].line = 0
          /\ ForwardItem[boxes'["protocol"].mark] = rule.proto /\ boxes'["buttons"] = boxes["buttons"]
      BY <3>1, <3>2, DrawsProtocols
    <3> QED
      BY <3>1, <3>2, <3>3
  <2> QED
    BY <1>1, <2>1, <2>2 DEF ForwardScreen!ForwardDown
<1>2. CASE ForwardScreen!ForwardRight
  BY <1>2, ItemShown DEF ForwardScreen!ForwardRight
<1>3. CASE ForwardScreen!ForwardLeft
  BY <1>3, ItemShown DEF ForwardScreen!ForwardLeft
<1>4. CASE ForwardScreen!ForwardUp
  <2>1. CASE p \in {1, 2, 10}
    BY <1>4, <2>1, ItemShown DEF ForwardScreen!ForwardUp
  <2>2. CASE p = 9
    BY <1>4, <2>2, DrawsButtons DEF ForwardScreen!ForwardUp
  <2> QED
    BY <1>4, <2>1, <2>2 DEF ForwardScreen!ForwardUp
<1>5. CASE ForwardScreen!ForwardSpace
  <2>1. /\ p \in 1..2 /\ p' = p /\ rule' = [rule EXCEPT !.proto = ForwardItem[p]]
        /\ boxes' = ForwardScreen!DrawForward(boxes, p, rule')
    BY <1>5 DEF ForwardScreen!ForwardSpace
  <2>2. rule' \in [action : {"FWD"}, proto : {"TCP", "UDP"}]
    <3>1. ForwardItem[p] \in {"TCP", "UDP"}
      BY <2>1 DEF ForwardItem
    <3> QED
      BY <2>1, <3>1
  <2>3. p \in Int /\ boxes \in ForwardBoxes /\ boxes["buttons"].line = 0
    BY <2>1
  <2> QED
    BY <2>1, <2>2, <2>3, DrawsProtocols
<1>6. CASE \E field, t : \E up \in BOOLEAN : ForwardScreen!ForwardEdit(field, t, up)
  BY <1>6, ForwardEditKeeps
<1> QED
  BY <1>1, <1>2, <1>3, <1>4, <1>5, <1>6 DEF ForwardScreen!ForwardKey

LEMMA ForwardOpened == ForwardScreen!ForwardOpen => ForwardInv'
<1> SUFFICES ASSUME ForwardScreen!ForwardOpen PROVE ForwardInv'
  OBVIOUS
<1> DEFINE bs == [b \in {"protocol", "buttons"} |-> [line |-> 0, mark |-> 0]]
<1>1. bs \in ForwardBoxes /\ bs["buttons"].line = 0
  BY DEF ForwardBoxes, Item
<1>2. ForwardScreen!InitialForward \in [action : {"FWD"}, proto : {"TCP", "UDP"}]
  BY DEF ForwardScreen!InitialForward
<1>3. p' = 1 /\ rule' = ForwardScreen!InitialForward /\ boxes' = ForwardScreen!DrawForward(bs, 1, rule')
  BY DEF ForwardScreen!ForwardOpen, ForwardScreen!OpenedForward
<1> HIDE DEF bs
<1> QED
  BY <1>1, <1>2, <1>3, DrawsProtocols DEF ForwardInv, ForwardScreen!ForwardShowsFocus

-----------------------------------------------------------------------------
(* Both, as the menu opens and closes them *)

ScreenInv ==
    /\ screen # "forward" => FilterInv
    /\ screen = "forward" => ForwardInv

LEMMA ScreenInit == ConsoleInit => ScreenInv
BY FilterOpened DEF ConsoleInit, ScreenInv

LEMMA ScreenStep == ScreenInv /\ [ConsoleNext]_consoleVars => ScreenInv'
<1> SUFFICES ASSUME ScreenInv, [ConsoleNext]_consoleVars PROVE ScreenInv'
  OBVIOUS
<1> USE DEF ScreenInv
<1>1. CASE ShowFilter \/ FilterOK \/ ForwardOK \/ Cancel
  <2>1. screen' \in {"filter", "menu"} /\ FilterScreen!Open
    BY <1>1 DEF ShowFilter, FilterOK, ForwardOK, Cancel, Close
  <2> QED
    BY <2>1, FilterOpened
<1>2. CASE ShowForward
  BY <1>2, ForwardOpened DEF ShowForward
<1>3. CASE FilterKey
  BY <1>3, KeyKeeps DEF FilterKey
<1>4. CASE ForwardKey
  BY <1>4, ForwardKeyKeeps DEF ForwardKey
<1>5. CASE Clear \/ UNCHANGED consoleVars
  BY <1>5 DEF Clear, consoleVars, form, FilterInv, ForwardInv, FilterScreen!FocusIsHighlighted,
              FilterScreen!MarksShowRule, ForwardScreen!ForwardShowsFocus
<1> QED
  BY <1>1, <1>2, <1>3, <1>4, <1>5 DEF ConsoleNext

LEMMA ScreensShow == ConsoleSpec => []ScreenInv
BY ScreenInit, ScreenStep, PTL DEF ConsoleSpec

\* Whatever path of keys led there, the one highlighted item is the one the next key acts on,
\* but for the second protocol as Tab reaches it (filter.c:85-707, forward.c:60-386).
THEOREM FocusIsShown == ConsoleSpec => []FocusShown
<1>1. ScreenInv => FocusShown
  BY DEF ScreenInv, FilterInv, ForwardInv, FocusShown
<1> QED
  BY <1>1, ScreensShow, PTL

\* The stars of the filter screen are the rule that OK inserts, and its option is one of its
\* protocol's (filter.c:385-523, misc.c:411-1376).
THEOREM MarksAreShown == ConsoleSpec => []MarksShown
<1>1. ScreenInv => MarksShown
  BY DEF ScreenInv, FilterInv, MarksShown
<1> QED
  BY <1>1, ScreensShow, PTL

-----------------------------------------------------------------------------
(* The screens implement Firewall *)

IsTuple(s) == \E n \in Nat : DOMAIN s = 1..n /\ s = [i \in 1..n |-> s[i]]

LEMMA LengthOfTuple ==
    ASSUME NEW s, NEW n \in Nat, DOMAIN s = 1..n, s = [i \in 1..n |-> s[i]]
    PROVE  Len(s) = n
<1> DEFINE S == {s[i] : i \in DOMAIN s}
<1>1. s \in [1..n -> S]
  OBVIOUS
<1>2. s \in Seq(S)
  BY <1>1
<1> QED
  BY <1>1, <1>2

LEMMA Appended ==
    ASSUME NEW s, IsTuple(s), NEW e
    PROVE  /\ Len(s) \in Nat /\ DOMAIN s = 1..Len(s)
           /\ IsTuple(Append(s, e)) /\ DOMAIN Append(s, e) = 1..(Len(s) + 1)
           /\ Append(s, e)[Len(s) + 1] = e
           /\ \A i \in 1..Len(s) : Append(s, e)[i] = s[i]
<1> DEFINE S == {s[i] : i \in DOMAIN s} \cup {e}
<1> DEFINE t == Append(s, e)
<1>1. PICK n \in Nat : DOMAIN s = 1..n /\ s = [i \in 1..n |-> s[i]]
  BY DEF IsTuple
<1>2. s \in Seq(S) /\ e \in S
  <2>1. s \in [1..n -> S]
    BY <1>1
  <2> QED
    BY <2>1
<1>3. Len(s) = n
  BY <1>1, LengthOfTuple
<1> HIDE DEF S
<1>4. /\ t \in Seq(S) /\ Len(t) = n + 1
      /\ t[n + 1] = e /\ \A i \in 1..n : t[i] = s[i]
  BY <1>2, <1>3, AppendProperties
<1> HIDE DEF t
<1>5. t \in [1..(n + 1) -> S]
  BY <1>4
<1>6. DOMAIN t = 1..(n + 1) /\ t = [i \in 1..(n + 1) |-> t[i]] /\ n + 1 \in Nat
  BY <1>5
<1>7. IsTuple(t)
  BY <1>6 DEF IsTuple
<1> QED
  BY <1>1, <1>3, <1>4, <1>6, <1>7 DEF t

LEMMA SameLength ==
    ASSUME NEW a \in Nat, NEW b \in Nat, 1..a = 1..b
    PROVE  a = b
<1>1. CASE a < b
  <2>1. b \in 1..b /\ b \notin 1..a
    BY <1>1
  <2> QED BY <2>1
<1>2. CASE b < a
  <2>1. a \in 1..a /\ a \notin 1..b
    BY <1>2
  <2> QED BY <2>1
<1> QED BY <1>1, <1>2

LEMMA SameTuple ==
    ASSUME NEW s, NEW t, IsTuple(s), IsTuple(t), DOMAIN s = DOMAIN t, \A i \in DOMAIN s : s[i] = t[i]
    PROVE  s = t
BY DEF IsTuple

\* What is said of each element, said of one more.
LEMMA MappedAppend ==
    ASSUME NEW s, IsTuple(s), NEW e, NEW a, NEW t, NEW v,
           IsTuple(a), DOMAIN a = DOMAIN s, IsTuple(t), DOMAIN t = DOMAIN Append(s, e),
           \A i \in DOMAIN s : t[i] = a[i], t[Len(s) + 1] = v
    PROVE  t = Append(a, v) /\ Len(a) = Len(s)
<1>1. Len(a) = Len(s) /\ Len(s) \in Nat
  <2>1. Len(a) \in Nat /\ DOMAIN a = 1..Len(a)
    BY Appended
  <2>2. Len(s) \in Nat /\ DOMAIN s = 1..Len(s)
    BY Appended
  <2> QED
    BY <2>1, <2>2, SameLength
<1> DEFINE u == Append(a, v)
<1>2. /\ IsTuple(u) /\ DOMAIN u = 1..(Len(s) + 1) 
      /\ u[Len(s) + 1] = v /\ \A i \in 1..Len(s) : u[i] = a[i]
  BY <1>1, Appended
<1>3. DOMAIN t = 1..(Len(s) + 1) /\ DOMAIN s = 1..Len(s)
  BY Appended
<1> HIDE DEF u
<1>4. \A i \in DOMAIN t : t[i] = u[i]
  <2> TAKE i \in DOMAIN t
  <2>1. i \in 1..Len(s) \/ i = Len(s) + 1
    BY <1>1, <1>3
  <2> QED
    BY <1>2, <1>3, <2>1
<1>5. t = u
  BY <1>2, <1>3, <1>4, SameTuple
<1> QED
  BY <1>1, <1>5 DEF u

Passed(c) == [i \in DOMAIN c |-> "pass"]
Body(r) == IF r.taken THEN "pass" ELSE "bad"
Bodies(s) == [i \in DOMAIN s |-> Body(s[i])]

LEMMA MapIsTuple ==
    ASSUME NEW s, IsTuple(s)
    PROVE  /\ IsTuple(Passed(s)) /\ DOMAIN Passed(s) = DOMAIN s
           /\ IsTuple(Bodies(s)) /\ DOMAIN Bodies(s) = DOMAIN s
           /\ Len(Bodies(s)) = Len(s)
<1>1. PICK n \in Nat : DOMAIN s = 1..n /\ s = [i \in 1..n |-> s[i]]
  BY DEF IsTuple
<1>2. Len(s) = n
  BY <1>1, LengthOfTuple
<1>3. DOMAIN Passed(s) = 1..n /\ Passed(s) = [i \in 1..n |-> Passed(s)[i]]
  BY <1>1 DEF Passed
<1>4. DOMAIN Bodies(s) = 1..n /\ Bodies(s) = [i \in 1..n |-> Bodies(s)[i]]
  BY <1>1 DEF Bodies
<1>5. Len(Bodies(s)) = n
  BY <1>4, LengthOfTuple
<1> QED
  BY <1>1, <1>2, <1>3, <1>4, <1>5 DEF IsTuple

LEMMA PassedAppend ==
    ASSUME NEW s, IsTuple(s), NEW e
    PROVE  Passed(Append(s, e)) = Append(Passed(s), "pass")
<1> DEFINE t == Append(s, e)
<1>1. IsTuple(t) /\ Len(s) + 1 \in DOMAIN t /\ DOMAIN s = 1..Len(s) /\ DOMAIN s \subseteq DOMAIN t
  BY Appended
<1>2. IsTuple(Passed(t)) /\ DOMAIN Passed(t) = DOMAIN t /\ IsTuple(Passed(s)) /\ DOMAIN Passed(s) = DOMAIN s
  BY <1>1, MapIsTuple
<1>3. (\A i \in DOMAIN s : Passed(t)[i] = Passed(s)[i]) /\ Passed(t)[Len(s) + 1] = "pass"
  <2> HIDE DEF t
  <2> QED BY <1>1 DEF Passed
<1> QED
  BY <1>2, <1>3, MappedAppend

LEMMA BodiesAppend ==
    ASSUME NEW s, IsTuple(s), NEW e
    PROVE  Bodies(Append(s, e)) = Append(Bodies(s), Body(e))
<1> DEFINE t == Append(s, e)
<1>1. /\ IsTuple(t) /\ Len(s) + 1 \in DOMAIN t /\ DOMAIN s = 1..Len(s) /\ DOMAIN s \subseteq DOMAIN t
      /\ t[Len(s) + 1] = e /\ \A i \in DOMAIN s : t[i] = s[i]
  BY Appended
<1>2. IsTuple(Bodies(t)) /\ DOMAIN Bodies(t) = DOMAIN t /\ IsTuple(Bodies(s)) /\ DOMAIN Bodies(s) = DOMAIN s
  BY <1>1, MapIsTuple
<1>3. (\A i \in DOMAIN s : Bodies(t)[i] = Bodies(s)[i]) /\ Bodies(t)[Len(s) + 1] = Body(e)
  <2> HIDE DEF t
  <2> QED BY <1>1 DEF Bodies
<1> QED
  BY <1>2, <1>3, MappedAppend

LEMMA IpfwTakes == \A c : Filters!Ipfw(c, "pass") = Append(c, "pass") /\ Filters!Ipfw(c, "bad") = c
BY DEF Filters!Ipfw

LEMMA ReplayNothing == Filters!Replay(<<>>) = <<>>
<1> DEFINE IsRun(g) == g = [i \in 0..Len(<<>>) |->
                                IF i = 0 THEN <<>> ELSE Filters!Ipfw(g[i - 1], <<>>[i])]
<1> DEFINE g0 == [i \in 0..0 |-> <<>>]
<1> DEFINE c == CHOOSE g : IsRun(g)
<1>1. IsRun(g0)
  OBVIOUS
<1>2. IsRun(c)
  BY <1>1
<1>3. c[0] = <<>>
  BY <1>2
<1>4. Filters!Replay(<<>>) = c[Len(<<>>)]
  BY DEF Filters!Replay
<1> QED
  BY <1>3, <1>4

-----------------------------------------------------------------------------
\* A screen is open only while the script has room for the line it adds.
RefInv ==
    /\ ScreenInv
    /\ IsTuple(rules) /\ IsTuple(chain)
    /\ screen # "menu" => Len(rules) < MaxLines

LEMMA EmptyIsTuple == IsTuple(<<>>) /\ Bodies(<<>>) = <<>> /\ Passed(<<>>) = <<>>
BY DEF IsTuple, Bodies, Passed

LEMMA Inserts ==
    ASSUME IsTuple(rules), IsTuple(chain),
           \/ FilterOK /\ ~(rule.action = "RESET" /\ rule.proto # "TCP")
           \/ ForwardOK
    PROVE  /\ IsTuple(rules') /\ IsTuple(chain')
           /\ \E b \in {"pass", "bad"} : /\ Bodies(rules') = Append(Bodies(rules), b)
                                         /\ Passed(chain') = Filters!Ipfw(Passed(chain), b)
<1>1. PICK b : /\ rules' = Append(rules, [words |-> b, taken |-> Parse(b).ok])
               /\ chain' = IF Parse(b).ok THEN Append(chain, Parse(b).r) ELSE chain
  <2>1. CASE FilterOK /\ ~(rule.action = "RESET" /\ rule.proto # "TCP")
    BY <2>1 DEF FilterOK, Insert
  <2>2. CASE ForwardOK
    BY <2>2 DEF ForwardOK, Insert
  <2> QED
    BY <2>1, <2>2
<1> DEFINE e == [words |-> b, taken |-> Parse(b).ok]
<1> DEFINE f == Parse(b).r
<1>2. CASE Parse(b).ok
  <2>1. Body(e) = "pass"
    BY <1>2 DEF Body
  <2> HIDE DEF e
  <2>2. rules' = Append(rules, e)
    BY <1>1 DEF e
  <2>3. chain' = Append(chain, f)
    BY <1>1, <1>2
  <2>4. IsTuple(rules') /\ IsTuple(chain')
    BY <2>2, <2>3, Appended
  <2>5. Bodies(rules') = Append(Bodies(rules), "pass")
    BY <2>1, <2>2, BodiesAppend
  <2>6. Passed(chain') = Filters!Ipfw(Passed(chain), "pass")
    BY <2>3, PassedAppend, IpfwTakes
  <2> QED
    BY <2>4, <2>5, <2>6
<1>3. CASE ~Parse(b).ok
  <2>1. Body(e) = "bad"
    BY <1>3 DEF Body
  <2> HIDE DEF e
  <2>2. rules' = Append(rules, e)
    BY <1>1 DEF e
  <2>3. chain' = chain
    BY <1>1, <1>3
  <2>4. IsTuple(rules') /\ IsTuple(chain')
    BY <2>2, <2>3, Appended
  <2>5. Bodies(rules') = Append(Bodies(rules), "bad")
    BY <2>1, <2>2, BodiesAppend
  <2>6. Passed(chain') = Filters!Ipfw(Passed(chain), "bad")
    BY <2>3, IpfwTakes
  <2> QED
    BY <2>4, <2>5, <2>6
<1> QED
  BY <1>2, <1>3

LEMMA RefInit == ConsoleInit => RefInv
BY ScreenInit, EmptyIsTuple DEF ConsoleInit, RefInv

LEMMA RefStep == RefInv /\ [ConsoleNext]_consoleVars => RefInv'
<1> SUFFICES ASSUME RefInv, [ConsoleNext]_consoleVars PROVE RefInv'
  OBVIOUS
<1>1. ScreenInv'
  BY ScreenStep DEF RefInv
<1>2. CASE ShowFilter \/ ShowForward \/ FilterKey \/ ForwardKey \/ Cancel \/ UNCHANGED consoleVars
  <2>1. UNCHANGED <<rules, chain>>
    BY <1>2 DEF ShowFilter, ShowForward, FilterKey, ForwardKey, Cancel, consoleVars
  <2>2. screen' # "menu" => Len(rules) < MaxLines
    BY <1>2 DEF ShowFilter, ShowForward, FilterKey, ForwardKey, Cancel, Close, RefInv, consoleVars
  <2> QED
    BY <1>1, <2>1, <2>2 DEF RefInv
<1>3. CASE FilterOK \/ ForwardOK
  <2>1. screen' = "menu"
    BY <1>3 DEF FilterOK, ForwardOK, Close
  <2>2. IsTuple(rules') /\ IsTuple(chain')
    BY <1>3, Inserts DEF FilterOK, ForwardOK, RefInv
  <2> QED
    BY <1>1, <2>1, <2>2 DEF RefInv
<1>4. CASE Clear
  BY <1>1, <1>4, EmptyIsTuple DEF Clear, RefInv
<1> QED
  BY <1>2, <1>3, <1>4 DEF ConsoleNext

Kind(r) == [action |-> r.action, proto |-> r.proto]

LEMMA RefMaps == RefInv /\ [ConsoleNext]_consoleVars => [Filters!Next]_Filters!vars
<1> SUFFICES ASSUME RefInv, [ConsoleNext]_consoleVars PROVE [Filters!Next]_Filters!vars
  OBVIOUS
<1> DEFINE none == <<"none", "none", "none", "none", [rules |-> <<>>, nat |-> "none", ext |-> "none"]>>
<1>1. CASE ShowFilter \/ ShowForward \/ FilterKey \/ ForwardKey \/ Cancel \/ UNCHANGED consoleVars
  <2>1. UNCHANGED <<rules, chain, notice>>
    BY <1>1 DEF ShowFilter, ShowForward, FilterKey, ForwardKey, Cancel, consoleVars
  <2> QED
    BY <2>1 DEF Filters!vars, ScriptBodies
<1>2. CASE FilterOK
  <2>1. rule \in FilterScreen!Rules /\ Len(ScriptBodies) < MaxLines
    BY <1>2, MapIsTuple DEF RefInv, ScreenInv, FilterInv, FilterOK, ScriptBodies, Bodies, Body
  <2>2. Kind(rule) \in Kinds /\ Kind(rule).action # "FWD"
    BY <2>1 DEF FilterScreen!Rules, Kinds, Kind
  <2>3. CASE rule.action = "RESET" /\ rule.proto # "TCP"
    <3>1. UNCHANGED <<rules, chain>> /\ notice' = "added"
      BY <1>2, <2>3 DEF FilterOK
    <3>2. Filters!Turned(Kind(rule))
      BY <2>3 DEF Filters!Turned, Kind
    <3>3. Filters!Filter(Kind(rule))
      BY <2>1, <2>2, <3>1, <3>2 DEF Filters!Filter, ScriptBodies
    <3> QED
      BY <2>2, <3>3 DEF Filters!Next
  <2>4. CASE ~(rule.action = "RESET" /\ rule.proto # "TCP")
    <3>1. PICK b \in {"pass", "bad"} : /\ Bodies(rules') = Append(Bodies(rules), b)
                                       /\ Passed(chain') = Filters!Ipfw(Passed(chain), b)
      BY <1>2, <2>4, Inserts DEF FilterOK, RefInv
    <3>2. ~Filters!Turned(Kind(rule)) /\ notice' = "added"
      BY <1>2, <2>4 DEF Filters!Turned, Kind, FilterOK
    <3>3. Filters!InsertRule(Kind(rule))
      BY <2>2, <3>1 DEF Filters!InsertRule, ScriptBodies, Bodies, Body, Passed
    <3>4. Filters!Filter(Kind(rule))
      BY <2>1, <2>2, <3>2, <3>3 DEF Filters!Filter
    <3> QED
      BY <2>2, <3>4 DEF Filters!Next
  <2> QED
    BY <2>3, <2>4
<1>3. CASE ForwardOK
  <2>1. rule \in [action : {"FWD"}, proto : {"TCP", "UDP"}] /\ Len(ScriptBodies) < MaxLines
    BY <1>3, MapIsTuple DEF RefInv, ScreenInv, ForwardInv, ForwardOK, ScriptBodies, Bodies, Body
  <2>2. Kind(rule) \in Kinds /\ Kind(rule).action = "FWD"
    BY <2>1 DEF Kinds, Kind
  <2>3. PICK b \in {"pass", "bad"} : /\ Bodies(rules') = Append(Bodies(rules), b)
                                     /\ Passed(chain') = Filters!Ipfw(Passed(chain), b)
    BY <1>3, Inserts DEF ForwardOK, RefInv
  <2>4. Filters!InsertRule(Kind(rule))
    BY <2>2, <2>3 DEF Filters!InsertRule, ScriptBodies, Bodies, Body, Passed
  <2>5. Filters!Forward(Kind(rule))
    BY <1>3, <2>1, <2>2, <2>4 DEF Filters!Forward, ForwardOK
  <2> QED
    BY <2>2, <2>5 DEF Filters!Next
<1>4. CASE Clear
  <2>1. ScriptBodies' = <<>> /\ Passed(chain') = <<>> /\ notice' = "cleared"
    BY <1>4, EmptyIsTuple DEF Clear, ScriptBodies, Bodies, Body
  <2>2. Filters!DivertAfter(<<>>, "none") = "none"
    BY DEF Filters!DivertAfter
  <2>3. Filters!AfmFlush
    BY <2>1, ReplayNothing DEF Filters!AfmFlush, Filters!FlushAndRun, Passed
  <2> QED
    BY <2>3 DEF Filters!Next
<1> QED
  BY <1>1, <1>2, <1>3, <1>4 DEF ConsoleNext

\* Whatever is typed and whatever ipfw thinks of it, what the two screens and the flush do
\* to the script and to the rules in force is what Firewall says the console does
\* (rules.c:32-228, filter.c:587-608, forward.c:332-351).
THEOREM ScreensImplementFirewall == ConsoleSpec => ImplementsFirewall
<1>1. ConsoleInit => Filters!Init
  BY DEF ConsoleInit, Filters!Init, Filters!Defaults, ScriptBodies
<1> QED
  BY <1>1, RefInit, RefStep, RefMaps, PTL DEF ConsoleSpec, ImplementsFirewall, Filters!Spec

-----------------------------------------------------------------------------
(* The words of a command *)

LEMMA Joined ==
    ASSUME NEW s, NEW t, IsTuple(s), IsTuple(t)
    PROVE  /\ IsTuple(s \o t) /\ Len(s) \in Nat /\ Len(t) \in Nat
           /\ Len(s \o t) = Len(s) + Len(t) /\ Len(s) + Len(t) \in Nat
           /\ \A i \in 1..Len(s) : (s \o t)[i] = s[i]
           /\ \A i \in 1..Len(t) : (s \o t)[Len(s) + i] = t[i]
<1> DEFINE S == {s[i] : i \in DOMAIN s} \cup {t[i] : i \in DOMAIN t}
<1>1. PICK m \in Nat : DOMAIN s = 1..m /\ s = [i \in 1..m |-> s[i]]
  BY DEF IsTuple
<1>2. PICK n \in Nat : DOMAIN t = 1..n /\ t = [i \in 1..n |-> t[i]]
  BY DEF IsTuple
<1>3. s \in Seq(S) /\ t \in Seq(S)
  <2>1. s \in [1..m -> S] /\ t \in [1..n -> S]
    BY <1>1, <1>2
  <2> QED
    BY <2>1
<1>4. Len(s) = m /\ Len(t) = n
  BY <1>1, <1>2, LengthOfTuple
<1> DEFINE u == s \o t
<1> HIDE DEF S
<1>5. /\ u \in Seq(S) /\ Len(u) = m + n
      /\ \A i \in 1..(m + n) : u[i] = IF i <= m THEN s[i] ELSE t[i - m]
  BY <1>3, <1>4, ConcatProperties
<1> HIDE DEF u
<1>6. u \in [1..(m + n) -> S] /\ m + n \in Nat
  BY <1>5
<1>7. IsTuple(u)
  BY <1>6 DEF IsTuple
<1>8. \A i \in 1..n : m + i \in 1..(m + n) /\ ~(m + i <= m) /\ (m + i) - m = i
  OBVIOUS
<1>9. \A i \in 1..n : u[m + i] = t[i]
  BY <1>5, <1>8
<1>10. \A i \in 1..m : u[i] = s[i]
  BY <1>5
<1> QED
  BY <1>4, <1>5, <1>7, <1>9, <1>10 DEF u

LEMMA ShortTuples ==
    /\ IsTuple(<<>>) /\ Len(<<>>) = 0
    /\ \A a : IsTuple(<<a>>) /\ Len(<<a>>) = 1 /\ <<a>>[1] = a
    /\ \A a, b : IsTuple(<<a, b>>) /\ Len(<<a, b>>) = 2 /\ <<a, b>>[1] = a /\ <<a, b>>[2] = b
<1>1. \A a : DOMAIN <<a>> = 1..1 /\ <<a>> = [i \in 1..1 |-> <<a>>[i]]
  OBVIOUS
<1>2. \A a, b : DOMAIN <<a, b>> = 1..2 /\ <<a, b>> = [i \in 1..2 |-> <<a, b>>[i]]
  OBVIOUS
<1> QED
  BY <1>1, <1>2, EmptyIsTuple DEF IsTuple

\* The words s are in ws, with n words before them.
Holds(ws, n, s) == \A j \in 1..Len(s) : Word(ws, n + j) = s[j]

LEMMA HoldsItself ==
    ASSUME NEW ws, IsTuple(ws)
    PROVE  Holds(ws, 0, ws)
<1>1. \A j \in 1..Len(ws) : 0 + j = j /\ j <= Len(ws)
  BY Appended
<1> QED
  BY <1>1 DEF Holds, Word

LEMMA HoldsParts ==
    ASSUME NEW ws, NEW n \in Nat, NEW s, NEW t, IsTuple(s), IsTuple(t), Holds(ws, n, s \o t),
           NEW m, m = n + Len(s)
    PROVE  Holds(ws, n, s) /\ Holds(ws, m, t)
<1>1. /\ Len(s) \in Nat /\ Len(t) \in Nat /\ Len(s \o t) = Len(s) + Len(t)
      /\ \A i \in 1..Len(s) : (s \o t)[i] = s[i]
      /\ \A i \in 1..Len(t) : (s \o t)[Len(s) + i] = t[i]
  BY Joined
<1> DEFINE u == s \o t
<1> HIDE DEF u
<1>2. ASSUME NEW j \in 1..Len(s) PROVE Word(ws, n + j) = s[j]
  <2>1. j \in 1..(Len(s) + Len(t))
    BY <1>1
  <2>2. Word(ws, n + j) = u[j]
    BY <1>1, <2>1 DEF Holds, u
  <2> QED
    BY <1>1, <2>2 DEF u
<1>3. ASSUME NEW j \in 1..Len(t) PROVE Word(ws, (n + Len(s)) + j) = t[j]
  <2>1. Len(s) + j \in 1..(Len(s) + Len(t)) /\ (n + Len(s)) + j = n + (Len(s) + j)
    BY <1>1
  <2>2. Word(ws, n + (Len(s) + j)) = u[Len(s) + j]
    BY <1>1, <2>1 DEF Holds, u
  <2> QED
    BY <1>1, <2>1, <2>2 DEF u
<1> QED
  BY <1>2, <1>3 DEF Holds

\* The command that a filter screen makes: the verb v, the protocol pr, hosts and ports, the
\* direction d, the option o, and what is left behind it, g.
Line(v, pr, src, sp, dst, dp, d, o, g) ==
    v \o pr \o (Words("from") \o src \o sp \o Words("to") \o dst \o dp) \o d \o o \o g

\* Where the words of a command are.
Laid(ws, v, pr, src, sp, dst, dp, d, o, g) ==
    LET m == 3 + Len(src) + Len(sp)
        n == m + 1 + Len(dst) + Len(dp)
    IN  /\ IsTuple(ws) /\ Len(ws) = n + Len(d) + Len(o) + Len(g)
        /\ Holds(ws, 0, v) /\ Holds(ws, 1, pr)
        /\ Holds(ws, 2, Words("from")) /\ Holds(ws, 3, src) /\ Holds(ws, 3 + Len(src), sp)
        /\ Holds(ws, m, Words("to")) /\ Holds(ws, m + 1, dst) /\ Holds(ws, m + 1 + Len(dst), dp)
        /\ Holds(ws, n, d) /\ Holds(ws, n + Len(d), o) /\ Holds(ws, n + Len(d) + Len(o), g)

LEMMA LineIsLaid ==
    ASSUME NEW v, NEW pr, NEW src, NEW sp, NEW dst, NEW dp, NEW d, NEW o, NEW g,
           IsTuple(v), IsTuple(pr), IsTuple(src), IsTuple(sp), IsTuple(dst), IsTuple(dp),
           IsTuple(d), IsTuple(o), IsTuple(g), Len(v) = 1, Len(pr) = 1
    PROVE  Laid(Line(v, pr, src, sp, dst, dp, d, o, g), v, pr, src, sp, dst, dp, d, o, g)
<1> DEFINE from == Words("from")
           to == Words("to")
           h1 == from \o src
           h2 == h1 \o sp
           h3 == h2 \o to
           h4 == h3 \o dst
           h5 == h4 \o dp
           w1 == v \o pr
           w2 == w1 \o h5
           w3 == w2 \o d
           w4 == w3 \o o
           ws == w4 \o g
<1>1. IsTuple(from) /\ IsTuple(to) /\ Len(from) = 1 /\ Len(to) = 1
  BY ShortTuples DEF Words
<1> HIDE DEF from, to
<1>2. IsTuple(h1) /\ Len(h1) = 1 + Len(src) /\ Len(h1) \in Nat
  <2> DEFINE l == from
             r == src
  <2>1. IsTuple(l) /\ IsTuple(r) /\ Len(l) = 1 /\ Len(r) = Len(src)
    BY <1>1
  <2> HIDE DEF l, r
  <2>2. IsTuple(l \o r) /\ Len(l \o r) = Len(l) + Len(r) /\ Len(l) + Len(r) \in Nat
    BY <2>1, Joined
  <2> QED
    BY <2>1, <2>2 DEF l, r
<1> HIDE DEF h1
<1>3. IsTuple(h2) /\ Len(h2) = Len(h1) + Len(sp) /\ Len(h2) \in Nat
  <2> DEFINE l == h1
             r == sp
  <2>1. IsTuple(l) /\ IsTuple(r) /\ Len(l) = Len(h1) /\ Len(r) = Len(sp)
    BY <1>2
  <2> HIDE DEF l, r
  <2>2. IsTuple(l \o r) /\ Len(l \o r) = Len(l) + Len(r) /\ Len(l) + Len(r) \in Nat
    BY <2>1, Joined
  <2> QED
    BY <2>1, <2>2 DEF l, r
<1> HIDE DEF h2
<1>4. IsTuple(h3) /\ Len(h3) = Len(h2) + 1 /\ Len(h3) \in Nat
  <2> DEFINE l == h2
             r == to
  <2>1. IsTuple(l) /\ IsTuple(r) /\ Len(l) = Len(h2) /\ Len(r) = 1
    BY <1>1, <1>3
  <2> HIDE DEF l, r
  <2>2. IsTuple(l \o r) /\ Len(l \o r) = Len(l) + Len(r) /\ Len(l) + Len(r) \in Nat
    BY <2>1, Joined
  <2> QED
    BY <2>1, <2>2 DEF l, r
<1> HIDE DEF h3
<1>5. IsTuple(h4) /\ Len(h4) = Len(h3) + Len(dst) /\ Len(h4) \in Nat
  <2> DEFINE l == h3
             r == dst
  <2>1. IsTuple(l) /\ IsTuple(r) /\ Len(l) = Len(h3) /\ Len(r) = Len(dst)
    BY <1>4
  <2> HIDE DEF l, r
  <2>2. IsTuple(l \o r) /\ Len(l \o r) = Len(l) + Len(r) /\ Len(l) + Len(r) \in Nat
    BY <2>1, Joined
  <2> QED
    BY <2>1, <2>2 DEF l, r
<1> HIDE DEF h4
<1>6. IsTuple(h5) /\ Len(h5) = Len(h4) + Len(dp) /\ Len(h5) \in Nat
  <2> DEFINE l == h4
             r == dp
  <2>1. IsTuple(l) /\ IsTuple(r) /\ Len(l) = Len(h4) /\ Len(r) = Len(dp)
    BY <1>5
  <2> HIDE DEF l, r
  <2>2. IsTuple(l \o r) /\ Len(l \o r) = Len(l) + Len(r) /\ Len(l) + Len(r) \in Nat
    BY <2>1, Joined
  <2> QED
    BY <2>1, <2>2 DEF l, r
<1> HIDE DEF h5
<1>7. IsTuple(w1) /\ Len(w1) = 1 + 1 /\ Len(w1) \in Nat
  <2> DEFINE l == v
             r == pr
  <2>1. IsTuple(l) /\ IsTuple(r) /\ Len(l) = 1 /\ Len(r) = 1
    BY <1>1
  <2> HIDE DEF l, r
  <2>2. IsTuple(l \o r) /\ Len(l \o r) = Len(l) + Len(r) /\ Len(l) + Len(r) \in Nat
    BY <2>1, Joined
  <2> QED
    BY <2>1, <2>2 DEF l, r
<1> HIDE DEF w1
<1>8. IsTuple(w2) /\ Len(w2) = Len(w1) + Len(h5) /\ Len(w2) \in Nat
  <2> DEFINE l == w1
             r == h5
  <2>1. IsTuple(l) /\ IsTuple(r) /\ Len(l) = Len(w1) /\ Len(r) = Len(h5)
    BY <1>6, <1>7
  <2> HIDE DEF l, r
  <2>2. IsTuple(l \o r) /\ Len(l \o r) = Len(l) + Len(r) /\ Len(l) + Len(r) \in Nat
    BY <2>1, Joined
  <2> QED
    BY <2>1, <2>2 DEF l, r
<1> HIDE DEF w2
<1>9. IsTuple(w3) /\ Len(w3) = Len(w2) + Len(d) /\ Len(w3) \in Nat
  <2> DEFINE l == w2
             r == d
  <2>1. IsTuple(l) /\ IsTuple(r) /\ Len(l) = Len(w2) /\ Len(r) = Len(d)
    BY <1>8
  <2> HIDE DEF l, r
  <2>2. IsTuple(l \o r) /\ Len(l \o r) = Len(l) + Len(r) /\ Len(l) + Len(r) \in Nat
    BY <2>1, Joined
  <2> QED
    BY <2>1, <2>2 DEF l, r
<1> HIDE DEF w3
<1>10. IsTuple(w4) /\ Len(w4) = Len(w3) + Len(o) /\ Len(w4) \in Nat
  <2> DEFINE l == w3
             r == o
  <2>1. IsTuple(l) /\ IsTuple(r) /\ Len(l) = Len(w3) /\ Len(r) = Len(o)
    BY <1>9
  <2> HIDE DEF l, r
  <2>2. IsTuple(l \o r) /\ Len(l \o r) = Len(l) + Len(r) /\ Len(l) + Len(r) \in Nat
    BY <2>1, Joined
  <2> QED
    BY <2>1, <2>2 DEF l, r
<1> HIDE DEF w4
<1>11. IsTuple(ws) /\ Len(ws) = Len(w4) + Len(g) /\ Len(ws) \in Nat
  <2> DEFINE l == w4
             r == g
  <2>1. IsTuple(l) /\ IsTuple(r) /\ Len(l) = Len(w4) /\ Len(r) = Len(g)
    BY <1>10
  <2> HIDE DEF l, r
  <2>2. IsTuple(l \o r) /\ Len(l \o r) = Len(l) + Len(r) /\ Len(l) + Len(r) \in Nat
    BY <2>1, Joined
  <2> QED
    BY <2>1, <2>2 DEF l, r
<1> HIDE DEF ws
<1>12. ws = Line(v, pr, src, sp, dst, dp, d, o, g)
  BY DEF Line, from, to, h1, h2, h3, h4, h5, w1, w2, w3, w4, ws
<1>13. Len(src) \in Nat /\ Len(sp) \in Nat /\ Len(dst) \in Nat /\ Len(dp) \in Nat
       /\ Len(d) \in Nat /\ Len(o) \in Nat /\ Len(g) \in Nat
  BY Appended
<1>14. Holds(ws, 0, ws)
  BY <1>11, HoldsItself
<1>15. Holds(ws, 0, w4) /\ Holds(ws, Len(w4), g)
  <2>1. Holds(ws, 0, w4 \o g) /\ Len(w4) = 0 + Len(w4)
    BY <1>14, <1>10 DEF ws
  <2> QED
    BY <2>1, <1>10, HoldsParts
<1>16. Holds(ws, 0, w3) /\ Holds(ws, Len(w3), o)
  <2>1. Holds(ws, 0, w3 \o o) /\ Len(w3) = 0 + Len(w3)
    BY <1>15, <1>9 DEF w4
  <2> QED
    BY <2>1, <1>9, HoldsParts
<1>17. Holds(ws, 0, w2) /\ Holds(ws, Len(w2), d)
  <2>1. Holds(ws, 0, w2 \o d) /\ Len(w2) = 0 + Len(w2)
    BY <1>16, <1>8 DEF w3
  <2> QED
    BY <2>1, <1>8, HoldsParts
<1>18. Holds(ws, 0, w1) /\ Holds(ws, 2, h5)
  <2>1. Holds(ws, 0, w1 \o h5) /\ 2 = 0 + Len(w1)
    BY <1>17, <1>7 DEF w2
  <2> QED
    BY <2>1, <1>7, <1>6, HoldsParts
<1>19. Holds(ws, 0, v) /\ Holds(ws, 1, pr)
  <2>1. Holds(ws, 0, v \o pr) /\ 1 = 0 + Len(v)
    BY <1>18 DEF w1
  <2> QED
    BY <2>1, <1>18, HoldsParts
<1>20. Holds(ws, 2, h4) /\ Holds(ws, (2 + Len(h4)), dp)
  <2>1. Holds(ws, 2, h4 \o dp) /\ (2 + Len(h4)) = 2 + Len(h4)
    BY <1>18 DEF h5
  <2> QED
    BY <2>1, <1>5, HoldsParts
<1>21. Holds(ws, 2, h3) /\ Holds(ws, (2 + Len(h3)), dst)
  <2>1. Holds(ws, 2, h3 \o dst) /\ (2 + Len(h3)) = 2 + Len(h3)
    BY <1>20 DEF h4
  <2> QED
    BY <2>1, <1>4, HoldsParts
<1>22. Holds(ws, 2, h2) /\ Holds(ws, (2 + Len(h2)), to)
  <2>1. Holds(ws, 2, h2 \o to) /\ (2 + Len(h2)) = 2 + Len(h2)
    BY <1>21 DEF h3
  <2> QED
    BY <2>1, <1>1, <1>3, HoldsParts
<1>23. Holds(ws, 2, h1) /\ Holds(ws, (2 + Len(h1)), sp)
  <2>1. Holds(ws, 2, h1 \o sp) /\ (2 + Len(h1)) = 2 + Len(h1)
    BY <1>22 DEF h2
  <2> QED
    BY <2>1, <1>2, HoldsParts
<1>24. Holds(ws, 2, from) /\ Holds(ws, 3, src)
  <2>1. Holds(ws, 2, from \o src) /\ 3 = 2 + Len(from)
    BY <1>23, <1>1 DEF h1
  <2> QED
    BY <2>1, <1>1, HoldsParts
<1> DEFINE m == 3 + Len(src) + Len(sp)
           n == m + 1 + Len(dst) + Len(dp)
<1>25. /\ 2 + Len(h1) = 3 + Len(src) /\ 2 + Len(h2) = m /\ 2 + Len(h3) = m + 1
       /\ 2 + Len(h4) = m + 1 + Len(dst) /\ Len(w2) = n
       /\ Len(w3) = n + Len(d) /\ Len(w4) = n + Len(d) + Len(o)
       /\ Len(ws) = n + Len(d) + Len(o) + Len(g)
  BY <1>2, <1>3, <1>4, <1>5, <1>6, <1>7, <1>8, <1>9, <1>10, <1>11, <1>13
<1> HIDE DEF m, n
<1>26. Laid(ws, v, pr, src, sp, dst, dp, d, o, g)
  BY <1>11, <1>15, <1>16, <1>17, <1>19, <1>20, <1>21, <1>22, <1>23, <1>24, <1>25 DEF Laid, m, n, from, to
<1> QED
  BY <1>12, <1>26

-----------------------------------------------------------------------------
(* The option loop *)

\* Induction on a set G of numbers up to n: a set of counterexamples without a least
\* element is empty.
LEMMA InductionUpTo ==
    ASSUME NEW n \in Nat, NEW G, 0 \in G,
           \A i \in 1..n : i - 1 \in G => i \in G
    PROVE  \A i \in 0..n : i \in G
<1> DEFINE T == {i \in 0..n : i \notin G}
           R == {ss \in Nat \X Nat : ss[1] < ss[2]}
<1>1. SUFFICES ASSUME T # {} PROVE FALSE
  OBVIOUS
<1>2. IsWellFoundedOn(R, Nat)
  BY NatLessThanWellFounded DEF OpToRel
<1>3. PICK m \in T : \A k \in T : <<k, m>> \notin R
  <2>1. T \subseteq Nat
    OBVIOUS
  <2> HIDE DEF R, T
  <2> QED BY <1>1, <1>2, <2>1, WFMin
<1>4. m \in 1..n /\ m - 1 \in 0..n /\ <<m - 1, m>> \in R
  OBVIOUS
<1> QED BY <1>3, <1>4

Round(ws, q) == IF q.ok THEN IF q.at > Len(ws) THEN q ELSE Option(ws, q) ELSE q

\* Three rounds that settle are all there are.
LEMMA ThreeRounds ==
    ASSUME NEW ws, Len(ws) \in Nat, Len(ws) >= 3, NEW s, PortsFit(s),
           NEW a, NEW b, NEW c, a = Round(ws, s), b = Round(ws, a), c = Round(ws, b), Round(ws, c) = c
    PROVE  Options(ws, s) = c
<1> DEFINE n == Len(ws)
           IsRun(f) == f = [i \in 0..n |-> IF i = 0 THEN s ELSE Round(ws, f[i - 1])]
           f0 == [i \in 0..n |-> IF i = 0 THEN s ELSE IF i = 1 THEN a ELSE IF i = 2 THEN b ELSE c]
           f1 == CHOOSE f : IsRun(f)
<1> HIDE DEF n
<1>1. n \in Nat /\ n >= 3
  BY DEF n
<1>2. IsRun(f0)
  <2> DEFINE u == [i \in 0..n |-> IF i = 0 THEN s ELSE Round(ws, f0[i - 1])]
  <2>1. \A i \in 0..n : f0[i] = IF i = 0 THEN s ELSE Round(ws, f0[i - 1])
    <3> TAKE i \in 0..n
    <3>1. CASE i \in 0..3
      BY <1>1, <3>1
    <3>2. CASE i \notin 0..3
      <4>1. i - 1 \in 0..n /\ i - 1 # 0 /\ i - 1 # 1 /\ i - 1 # 2 /\ i # 0 /\ i # 1 /\ i # 2
        BY <1>1, <3>2
      <4> QED
        BY <4>1
    <3> QED
      BY <3>1, <3>2
  <2>2. DOMAIN f0 = DOMAIN u /\ \A i \in DOMAIN f0 : f0[i] = u[i]
    BY <2>1
  <2> QED
    BY <2>2
<1>3. IsRun(f1)
  BY <1>2
<1>4. \A i \in 0..n : f1[i] = IF i = 0 THEN s ELSE Round(ws, f1[i - 1])
  <2> HIDE DEF f1
  <2> QED BY <1>3
<1>5. f1[n] = c
  <2> HIDE DEF f1
  <2> DEFINE G == {i \in 0..n : i >= 3 => f1[i] = c}
  <2>1. f1[0] = s /\ f1[1] = a /\ f1[2] = b /\ f1[3] = c
    <3>1. 0 \in 0..n /\ 1 \in 0..n /\ 2 \in 0..n /\ 3 \in 0..n
      BY <1>1
    <3>2. f1[0] = s
      BY <1>4, <3>1
    <3>3. f1[1] = a
      BY <1>4, <3>1, <3>2
    <3>4. f1[2] = b
      BY <1>4, <3>1, <3>3
    <3>5. f1[3] = c
      BY <1>4, <3>1, <3>4
    <3> QED
      BY <3>2, <3>3, <3>4, <3>5
  <2>2. 0 \in G
    BY <1>1
  <2>3. ASSUME NEW i \in 1..n, i - 1 \in G PROVE i \in G
    <3>1. CASE i <= 3
      BY <1>1, <2>1, <3>1
    <3>2. CASE i > 3
      <4>1. i \in 0..n /\ i # 0 /\ i - 1 >= 3 /\ f1[i - 1] = c
        BY <1>1, <2>3, <3>2
      <4> QED
        BY <1>4, <4>1
    <3> QED
      BY <3>1, <3>2
  <2>4. \A i \in 0..n : i \in G
    <3> HIDE DEF G
    <3> QED BY <1>1, <2>2, <2>3, InductionUpTo
  <2> QED
    BY <1>1, <2>4
<1>6. Options(ws, s) = f1[n]
  BY DEF Options, Round, n
<1> QED
  BY <1>5, <1>6

\* Some of the three rounds may be missing.
LEMMA UpToThreeRounds ==
    ASSUME NEW ws, Len(ws) \in Nat, Len(ws) >= 3, NEW s, PortsFit(s), NEW a, NEW b, NEW c,
           a = s \/ a = Round(ws, s), b = a \/ b = Round(ws, a), c = b \/ c = Round(ws, b), Round(ws, c) = c
    PROVE  Options(ws, s) = c
<1>1. PICK q1, q2, q3 : q1 = Round(ws, s) /\ q2 = Round(ws, q1) /\ q3 = Round(ws, q2)
  OBVIOUS
<1>2. c \in {s, q1, q2, q3}
  BY <1>1
<1>3. q3 = c
  BY <1>1, <1>2
<1> QED
  BY <1>1, <1>3, ThreeRounds

LEMMA RefusedIsRefused ==
    ASSUME NEW ws, Len(ws) \in Nat, Len(ws) >= 3, NEW s, ~s.ok
    PROVE  Options(ws, s) = s
<1>1. PortsFit(s) /\ Round(ws, s) = s
  BY DEF PortsFit, Round
<1> QED
  BY <1>1, UpToThreeRounds

-----------------------------------------------------------------------------
(* The parts of a command *)

IsState(s) == s \in [ok : {s.ok}, at : {s.at}, r : {s.r}, via : {s.via}, xmrc : {s.xmrc}]
IsRule(r) == r \in [cmd : {r.cmd}, arg : {r.arg}, fwd : {r.fwd}, log : {r.log}, amount : {r.amount},
                    proto : {r.proto}, src : {r.src}, sp : {r.sp}, dst : {r.dst}, dp : {r.dp},
                    flags : {r.flags}, inif : {r.inif}, outif : {r.outif}, limit : {r.limit},
                    conns : {r.conns}, set : {r.set}, clear : {r.clear}, types : {r.types}]
\* After some words: ipfw goes on with the n-th, and has made r.
Reached(s, n, r) == IsState(s) /\ s.ok /\ s.at = n /\ s.r = r /\ ~s.via /\ ~s.xmrc

LEMMA Moves ==
    ASSUME NEW s, NEW n, NEW r, Reached(s, n, r), NEW k, NEW x
    PROVE  /\ Reached([s EXCEPT !.at = @ + k, !.r.cmd = x], n + k, [r EXCEPT !.cmd = x])
           /\ Reached([s EXCEPT !.at = @ + k, !.r.proto = x], n + k, [r EXCEPT !.proto = x])
BY DEF Reached, IsState

VerbWord == {"allow", "deny", "reset"}
ProtocolWord == {"tcp", "ip", "udp", "icmp"}
Begun(k, pr) == [Blank EXCEPT !.cmd = k, !.proto = pr]

LEMMA Begins ==
    ASSUME NEW ws, NEW k \in VerbWord, NEW pr \in ProtocolWord,
           Word(ws, 1) = <<k>>, Word(ws, 2) = <<pr>>, ~(k = "reset" /\ pr # "tcp")
    PROVE  /\ Reached(ProtoPart(ws, LogPart(ws, ActionPart(ws, Start))), 3, Begun(k, pr))
           /\ ActionPart(ws, Start).r.cmd # "check-state"
<1> DEFINE s == ActionPart(ws, Start)
           t == LogPart(ws, s)
           u == ProtoPart(ws, t)
<1>1. Reached(Start, 1, Blank) /\ Start.at = 1
  BY DEF Start, IsState, Reached
<1>2. Keyword(<<k>>) = k /\ Keyword(<<pr>>) = pr
  BY DEF Keyword, VerbWord, ProtocolWord
<1>3. s = [Start EXCEPT !.at = @ + 1, !.r.cmd = k]
  <2>1. Keyword(Word(ws, Start.at)) = k
    BY <1>1, <1>2
  <2> QED
    BY <2>1 DEF ActionPart, VerbWord
<1>4. Reached(s, 2, [Blank EXCEPT !.cmd = k])
  <2>1. Reached(s, 1 + 1, [Blank EXCEPT !.cmd = k])
    <3> HIDE DEF s
    <3> QED BY <1>1, <1>3, Moves
  <2> QED
    BY <2>1
<1> HIDE DEF s
<1>5. t = s
  BY <1>2, <1>4 DEF LogPart, Is, Reached, ProtocolWord
<1> HIDE DEF t
<1>6. s.r.cmd = k /\ IsRule(s.r)
  BY <1>4 DEF Reached, Blank, IsRule
<1>7. u = [s EXCEPT !.at = @ + 1, !.r.proto = pr]
  BY <1>2, <1>4, <1>5, <1>6 DEF ProtoPart, Reached, ProtocolWord
<1>8. Reached(u, 3, [s.r EXCEPT !.proto = pr])
  <2>1. Reached(s, 2, s.r)
    BY <1>4 DEF Reached
  <2>2. Reached(u, 2 + 1, [s.r EXCEPT !.proto = pr])
    <3> HIDE DEF u
    <3> QED BY <1>7, <2>1, Moves
  <2> QED
    BY <2>2
<1>9. s.r = [Blank EXCEPT !.cmd = k]
  BY <1>4 DEF Reached
<1>10. k # "check-state"
  BY DEF VerbWord
<1> QED
  BY <1>6, <1>8, <1>9, <1>10 DEF Begun, s, t

\* A host on the command line: one word, or "not" and one word.
HostWords(h) == \/ h = <<h[1]>> /\ HostWord(h[1])
                \/ h = << <<"not">>, h[2]>> /\ HostWord(h[2])
Refused(h) == \E i \in DOMAIN h : h[i] = <<"bad">> \/ (h[i][1] = "net" /\ h[i][3] > Width)
HostAs(w, neg) ==
    IF w = <<"me">> THEN [AnyHost EXCEPT !.me = TRUE, !.neg = neg]
    ELSE [neg |-> neg, me |-> FALSE, addr |-> FillIp(w).addr, mask |-> FillIp(w).mask]
HostOf(h) == HostAs(h[Len(h)], Len(h) = 2)

LEMMA HostWordKinds ==
    ASSUME NEW w, HostWord(w)
    PROVE  /\ w[1] \in {"any", "me", "bad", "addr", "net", "masked"}
           /\ Keyword(w) = w[1] /\ w # <<"not">>
           /\ (w[1] = "me") <=> (w = <<"me">>)
           /\ (w[1] = "bad") <=> (w = <<"bad">>)
           /\ w = <<"me">> \/ (FillIp(w).ok <=> ~(w = <<"bad">> \/ (w[1] = "net" /\ w[3] > Width)))
<1>1. \/ w = <<"any">> \/ w = <<"me">> \/ w = <<"bad">>
      \/ w[1] = "addr" \/ w[1] = "masked" \/ w[1] = "net"
  BY DEF HostWord
<1>2. w[1] \in {"any", "me", "bad", "addr", "net", "masked"}
  BY <1>1
<1>3. Keyword(w) = w[1] /\ w # <<"not">>
  BY <1>2 DEF Keyword
<1>4. (w[1] = "me" <=> w = <<"me">>) /\ (w[1] = "bad" <=> w = <<"bad">>)
  BY <1>1
<1>5. w[1] # "me" => (FillIp(w).ok <=> ~(w[1] = "bad" \/ (w[1] = "net" /\ w[3] > Width)))
  BY <1>2 DEF FillIp, Error
<1> QED
  BY <1>2, <1>3, <1>4, <1>5

PortWords(t) == \/ t = <<>>
                \/ t = << <<"bad">> >>
                \/ \E n \in Int : PortOk(n) /\ t = << <<"ports", <<n>>, <<>> >> >>
PortsOf(t) == [kind |-> "list", ports |-> IF t = <<>> \/ t = << <<"bad">> >> THEN <<>> ELSE t[1][2]]

LEMMA HostRead ==
    ASSUME NEW ws, NEW at \in Nat, NEW h, HostWords(h), Holds(ws, at, h)
    PROVE  LET i == IF Is(ws, at + 1, "not") THEN at + 2 ELSE at + 1
           IN  /\ i = at + Len(h) /\ Word(ws, i) = h[Len(h)]
               /\ i = at + 2 <=> Len(h) = 2
               /\ Len(h) \in 1..2 /\ HostWord(h[Len(h)])
<1>1. CASE h = <<h[1]>> /\ HostWord(h[1])
  <2>1. Len(h) = 1
    BY <1>1, ShortTuples
  <2>2. Word(ws, at + 1) = h[1]
    BY <2>1 DEF Holds
  <2>3. ~Is(ws, at + 1, "not")
    BY <1>1, <2>2, HostWordKinds DEF Is
  <2> QED
    BY <1>1, <2>1, <2>2, <2>3
<1>2. CASE h = << <<"not">>, h[2]>> /\ HostWord(h[2])
  <2>1. Len(h) = 2 /\ h[1] = <<"not">>
    BY <1>2, ShortTuples
  <2>2. Word(ws, at + 1) = <<"not">> /\ Word(ws, at + 2) = h[2]
    BY <2>1 DEF Holds
  <2>3. Is(ws, at + 1, "not")
    BY <2>2 DEF Is, Keyword
  <2> QED
    BY <1>2, <2>1, <2>2, <2>3
<1> QED
  BY <1>1, <1>2 DEF HostWords

LEMMA RefusedIsLast ==
    ASSUME NEW h, HostWords(h)
    PROVE  Refused(h) <=> LET w == h[Len(h)] IN w = <<"bad">> \/ (w[1] = "net" /\ w[3] > Width)
<1>1. CASE h = <<h[1]>> /\ HostWord(h[1])
  <2>1. DOMAIN h = 1..1 /\ Len(h) = 1
    BY <1>1, ShortTuples
  <2> QED
    BY <2>1 DEF Refused
<1>2. CASE h = << <<"not">>, h[2]>> /\ HostWord(h[2])
  <2>1. DOMAIN h = 1..2 /\ Len(h) = 2 /\ h[1] = <<"not">>
    BY <1>2, ShortTuples
  <2>2. <<"not">>[1] = "not" /\ <<"not">> # <<"bad">>
    OBVIOUS
  <2> QED
    BY <2>1, <2>2 DEF Refused
<1> QED
  BY <1>1, <1>2 DEF HostWords

LEMMA HostMoves ==
    ASSUME NEW s, NEW n, NEW r, Reached(s, n, r), NEW k, NEW hf, NEW x, NEW pf, NEW y
    PROVE  /\ Reached([s EXCEPT !.at = k, !.r[hf] = x], k, [r EXCEPT ![hf] = x])
           /\ Reached([s EXCEPT !.at = k, !.r[hf] = x, !.r[pf] = y], k, [r EXCEPT ![hf] = x, ![pf] = y])
BY DEF Reached, IsState

LEMMA APort ==
    ASSUME NEW t, PortWords(t), t # <<>>, t # << <<"bad">> >>
    PROVE  \E m \in Int : PortOk(m) /\ t = << <<"ports", <<m>>, <<>> >> >>
BY DEF PortWords

LEMMA OnePort ==
    ASSUME NEW n, PortOk(n), NEW there \in Nat, there + 1 <= MaxPorts
    PROVE  /\ FillPort(<<"ports", <<n>>, <<>> >>, there).ok
           /\ [kind |-> FillPort(<<"ports", <<n>>, <<>> >>, there).kind,
               ports |-> FillPort(<<"ports", <<n>>, <<>> >>, there).ports] = [kind |-> "list", ports |-> <<n>>]
<1> DEFINE w == <<"ports", <<n>>, <<>> >>
           f == FillPort(w, there)
<1>1. w[2] = <<n>> /\ w[3] = <<>> /\ Len(w[2]) = 1 /\ Len(w[3]) = 0 /\ DOMAIN w[2] = {1} /\ w[2][1] = n
  BY ShortTuples
<1> HIDE DEF w
<1>2. 1 + there <= MaxPorts
  OBVIOUS
<1>3. f = [ok |-> TRUE, kind |-> "list", ports |-> w[2]]
  <2>1. (\A i \in DOMAIN w[2] : PortOk(w[2][i])) /\ (\A i \in 2..Len(w[3]) : w[3][i] = ",")
        /\ Len(w[2]) + there <= MaxPorts
    BY <1>1, <1>2, SizeAssumption
  <2> QED
    BY <1>1, <2>1 DEF FillPort
<1>4. f.ok /\ f.kind = "list" /\ f.ports = <<n>>
  BY <1>1, <1>3
<1> QED
  BY <1>4 DEF w

LEMMA HostTaken ==
    ASSUME NEW ws, NEW s, NEW n \in Nat, NEW r, Reached(s, n + 1, r),
           NEW word \in {"from", "to"}, Holds(ws, n, Words(word)),
           NEW h, HostWords(h), Holds(ws, n + 1, h),
           NEW t, PortWords(t), Holds(ws, n + 1 + Len(h), t),
           t = <<>> => Word(ws, n + 2 + Len(h))[1] # "ports",
           NEW there \in Nat, there + 1 <= MaxPorts, NEW hf, NEW pf
    PROVE  LET q == HostPart(ws, s, word, hf, pf, there)
               k == n + 2 + Len(h)
           IN  /\ Refused(h) => ~q.ok
               /\ ~Refused(h) /\ (t = <<>> \/ t = << <<"bad">> >>) => Reached(q, k, [r EXCEPT ![hf] = HostOf(h)])
               /\ ~Refused(h) /\ ~(t = <<>> \/ t = << <<"bad">> >>) =>
                    Reached(q, k + 1, [r EXCEPT ![hf] = HostOf(h), ![pf] = PortsOf(t)])
<1> DEFINE q == HostPart(ws, s, word, hf, pf, there)
           k == n + 2 + Len(h)
           w == h[Len(h)]
           i == IF s.ok /\ Is(ws, s.at + 1, "not") THEN s.at + 2 ELSE s.at + 1
           x == Word(ws, i + 1)
           host == IF Is(ws, i, "me") THEN [AnyHost EXCEPT !.neg = (i = s.at + 2), !.me = TRUE]
                   ELSE [neg |-> i = s.at + 2, me |-> FALSE, addr |-> FillIp(w).addr, mask |-> FillIp(w).mask]
<1>1. s.ok /\ s.at = n + 1
  BY DEF Reached
<1>2. i = n + 1 + Len(h) /\ Word(ws, i) = w /\ (i = s.at + 2 <=> Len(h) = 2) /\ Len(h) \in 1..2 /\ HostWord(w)
  <2>1. n + 1 \in Nat
    OBVIOUS
  <2>2. i = IF Is(ws, (n + 1) + 1, "not") THEN (n + 1) + 2 ELSE (n + 1) + 1
    BY <1>1
  <2> HIDE DEF i
  <2> QED
    BY <1>1, <2>1, <2>2, HostRead
<1> HIDE DEF i
<1>3. Is(ws, s.at, word)
  <2>1. Word(ws, n + 1) = <<word>>
    BY ShortTuples DEF Holds, Words
  <2> QED
    BY <1>1, <2>1 DEF Is, Keyword
<1>4. (Is(ws, i, "me") <=> w = <<"me">>) /\ (w = <<"me">> \/ (FillIp(w).ok <=> ~Refused(h)))
      /\ (w = <<"me">> => ~Refused(h))
  <2>1. Is(ws, i, "me") <=> w = <<"me">>
    BY <1>2, HostWordKinds DEF Is
  <2>2. Refused(h) <=> (w = <<"bad">> \/ (w[1] = "net" /\ w[3] > Width))
    BY RefusedIsLast
  <2>3. w = <<"me">> => w # <<"bad">> /\ w[1] # "net"
    OBVIOUS
  <2> HIDE DEF w
  <2> QED
    BY <1>2, <2>1, <2>2, <2>3, HostWordKinds
<1>5. host = HostOf(h)
  BY <1>2, <1>4 DEF HostOf, HostAs
<1>6. i + 1 = k
  BY <1>2
<1>7. q = IF ~s.ok THEN s
          ELSE IF ~Is(ws, s.at, word) \/ (~Is(ws, i, "me") /\ ~FillIp(w).ok) THEN Error
          ELSE IF x[1] # "ports" THEN [s EXCEPT !.at = i + 1, !.r[hf] = host]
          ELSE IF ~FillPort(x, there).ok THEN Error
          ELSE [s EXCEPT !.at = i + 2, !.r[hf] = host,
                         !.r[pf] = [kind |-> FillPort(x, there).kind, ports |-> FillPort(x, there).ports]]
  BY <1>2, ZenonT(40) DEF HostPart, i
<1> HIDE DEF q, host
<1>8. ASSUME Refused(h) PROVE ~q.ok
  BY <1>1, <1>4, <1>7, <1>8 DEF Error
<1>9. ASSUME ~Refused(h), t = <<>> \/ t = << <<"bad">> >>
      PROVE  Reached(q, k, [r EXCEPT ![hf] = HostOf(h)])
  <2>1. x[1] # "ports"
    <3>1. CASE t = <<>>
      BY <1>6, <3>1
    <3>2. CASE t = << <<"bad">> >>
      <4>1. Word(ws, n + 1 + Len(h) + 1) = <<"bad">>
        BY <3>2, ShortTuples DEF Holds
      <4> QED
        BY <1>2, <4>1
    <3> QED
      BY <1>9, <3>1, <3>2
  <2>2. q = [s EXCEPT !.at = k, !.r[hf] = HostOf(h)]
    BY <1>1, <1>3, <1>4, <1>5, <1>6, <1>7, <1>9, <2>1
  <2> QED
    BY <2>2, HostMoves
<1>10. ASSUME ~Refused(h), ~(t = <<>> \/ t = << <<"bad">> >>)
       PROVE  Reached(q, k + 1, [r EXCEPT ![hf] = HostOf(h), ![pf] = PortsOf(t)])
  <2>1. PICK m \in Int : PortOk(m) /\ t = << <<"ports", <<m>>, <<>> >> >>
    BY <1>10, APort
  <2>2. x = <<"ports", <<m>>, <<>> >>
    <3>1. Word(ws, n + 1 + Len(h) + 1) = <<"ports", <<m>>, <<>> >>
      BY <2>1, ShortTuples DEF Holds
    <3> QED
      BY <1>2, <3>1
  <2>3. PortsOf(t) = [kind |-> "list", ports |-> <<m>>]
    BY <1>10, <2>1 DEF PortsOf
  <2>4. FillPort(x, there).ok
        /\ [kind |-> FillPort(x, there).kind, ports |-> FillPort(x, there).ports] = PortsOf(t)
    <3> DEFINE y == <<"ports", <<m>>, <<>> >>
    <3>0. PortOk(m)
      BY <2>1
    <3>1. FillPort(y, there).ok
          /\ [kind |-> FillPort(y, there).kind, ports |-> FillPort(y, there).ports] = [kind |-> "list", ports |-> <<m>>]
      BY <3>0, OnePort
    <3> HIDE DEF y, x
    <3>2. x = y
      BY <2>2 DEF y
    <3> QED
      BY <2>3, <3>1, <3>2
  <2>5. x[1] = "ports"
    BY <2>2
  <2>6. i + 2 = k + 1
    BY <1>2
  <2> HIDE DEF x, k
  <2> DEFINE ports == [kind |-> FillPort(x, there).kind, ports |-> FillPort(x, there).ports]
  <2>7. q = [s EXCEPT !.at = i + 2, !.r[hf] = host, !.r[pf] = ports]
    BY <1>1, <1>3, <1>4, <1>7, <1>10, <2>4, <2>5
  <2>8. ports = PortsOf(t)
    BY <2>4
  <2> HIDE DEF ports
  <2>9. Reached(q, k + 1, [r EXCEPT ![hf] = host, ![pf] = ports])
    BY <2>6, <2>7, HostMoves
  <2> QED
    BY <1>5, <2>8, <2>9
<1> QED
  BY <1>8, <1>9, <1>10 DEF q

\* What the words behind the hosts add to a rule.
With(r, fl, st, cl, ty) ==
    [r EXCEPT !.flags = @ \cup fl, !.set = @ \cup st, !.clear = @ \cup cl, !.types = @ \cup ty]

LEMMA SameRecord ==
    ASSUME NEW r, NEW q, IsRule(r), IsRule(q),
           r.cmd = q.cmd, r.arg = q.arg, r.fwd = q.fwd, r.log = q.log, r.amount = q.amount,
           r.proto = q.proto, r.src = q.src, r.sp = q.sp, r.dst = q.dst, r.dp = q.dp,
           r.flags = q.flags, r.inif = q.inif, r.outif = q.outif, r.limit = q.limit,
           r.conns = q.conns, r.set = q.set, r.clear = q.clear, r.types = q.types
    PROVE  r = q
BY DEF IsRule

LEMMA WithFields ==
    ASSUME NEW r, IsRule(r), NEW fl, NEW st, NEW cl, NEW ty
    PROVE  LET q == With(r, fl, st, cl, ty)
           IN  /\ IsRule(q)
               /\ q.cmd = r.cmd /\ q.arg = r.arg /\ q.fwd = r.fwd /\ q.log = r.log /\ q.amount = r.amount
               /\ q.proto = r.proto /\ q.src = r.src /\ q.sp = r.sp /\ q.dst = r.dst /\ q.dp = r.dp
               /\ q.inif = r.inif /\ q.outif = r.outif /\ q.limit = r.limit /\ q.conns = r.conns
               /\ q.flags = r.flags \cup fl /\ q.set = r.set \cup st /\ q.clear = r.clear \cup cl
               /\ q.types = r.types \cup ty
BY DEF With, IsRule

LEMMA SameWith ==
    ASSUME NEW r, IsRule(r), NEW fl, NEW st, NEW cl, NEW ty, NEW q, IsRule(q),
           q.cmd = r.cmd, q.arg = r.arg, q.fwd = r.fwd, q.log = r.log, q.amount = r.amount,
           q.proto = r.proto, q.src = r.src, q.sp = r.sp, q.dst = r.dst, q.dp = r.dp,
           q.inif = r.inif, q.outif = r.outif, q.limit = r.limit, q.conns = r.conns,
           q.flags = r.flags \cup fl, q.set = r.set \cup st, q.clear = r.clear \cup cl,
           q.types = r.types \cup ty
    PROVE  With(r, fl, st, cl, ty) = q
<1> DEFINE w == With(r, fl, st, cl, ty)
<1>1. /\ IsRule(w)
      /\ w.cmd = r.cmd /\ w.arg = r.arg /\ w.fwd = r.fwd /\ w.log = r.log /\ w.amount = r.amount
      /\ w.proto = r.proto /\ w.src = r.src /\ w.sp = r.sp /\ w.dst = r.dst /\ w.dp = r.dp
      /\ w.inif = r.inif /\ w.outif = r.outif /\ w.limit = r.limit /\ w.conns = r.conns
      /\ w.flags = r.flags \cup fl /\ w.set = r.set \cup st /\ w.clear = r.clear \cup cl
      /\ w.types = r.types \cup ty
  BY WithFields
<1> HIDE DEF w
<1>2. w = q
  BY <1>1, SameRecord
<1> QED
  BY <1>2 DEF w

LEMMA WithSome ==
    ASSUME NEW r, IsRule(r), NEW fl, NEW ty
    PROVE  /\ With(r, {}, {}, {}, {}) = r
           /\ With(r, fl, {}, {}, {}) = [r EXCEPT !.flags = @ \cup fl]
           /\ With(r, {}, {}, {}, ty) = [r EXCEPT !.types = @ \cup ty]
<1>1. With(r, {}, {}, {}, {}) = r
  <2>1. /\ r.flags \cup {} = r.flags /\ r.set \cup {} = r.set
        /\ r.clear \cup {} = r.clear /\ r.types \cup {} = r.types
    OBVIOUS
  <2> QED
    BY <2>1, SameWith
<1>2. With(r, fl, {}, {}, {}) = [r EXCEPT !.flags = @ \cup fl]
  <2> DEFINE q == [r EXCEPT !.flags = @ \cup fl]
  <2>1. /\ IsRule(q)
        /\ q.cmd = r.cmd /\ q.arg = r.arg /\ q.fwd = r.fwd /\ q.log = r.log /\ q.amount = r.amount
        /\ q.proto = r.proto /\ q.src = r.src /\ q.sp = r.sp /\ q.dst = r.dst /\ q.dp = r.dp
        /\ q.inif = r.inif /\ q.outif = r.outif /\ q.limit = r.limit /\ q.conns = r.conns
        /\ q.flags = r.flags \cup fl /\ q.set = r.set \cup {} /\ q.clear = r.clear \cup {}
        /\ q.types = r.types \cup {}
    BY DEF IsRule
  <2> HIDE DEF q
  <2>2. With(r, fl, {}, {}, {}) = q
    BY <2>1, SameWith
  <2> QED
    BY <2>2 DEF q
<1>3. With(r, {}, {}, {}, ty) = [r EXCEPT !.types = @ \cup ty]
  <2> DEFINE q == [r EXCEPT !.types = @ \cup ty]
  <2>1. /\ IsRule(q)
        /\ q.cmd = r.cmd /\ q.arg = r.arg /\ q.fwd = r.fwd /\ q.log = r.log /\ q.amount = r.amount
        /\ q.proto = r.proto /\ q.src = r.src /\ q.sp = r.sp /\ q.dst = r.dst /\ q.dp = r.dp
        /\ q.inif = r.inif /\ q.outif = r.outif /\ q.limit = r.limit /\ q.conns = r.conns
        /\ q.flags = r.flags \cup {} /\ q.set = r.set \cup {} /\ q.clear = r.clear \cup {}
        /\ q.types = r.types \cup ty
    BY DEF IsRule
  <2> HIDE DEF q
  <2>2. With(r, {}, {}, {}, ty) = q
    BY <2>1, SameWith
  <2> QED
    BY <2>2 DEF q
<1> QED
  BY <1>1, <1>2, <1>3

LEMMA WithMarks ==
    ASSUME NEW r, IsRule(r), NEW st, NEW cl
    PROVE  With(r, {}, st, cl, {}) = [r EXCEPT !.set = @ \cup st, !.clear = @ \cup cl]
<1> DEFINE q == [r EXCEPT !.set = @ \cup st, !.clear = @ \cup cl]
<1>1. /\ IsRule(q)
      /\ q.cmd = r.cmd /\ q.arg = r.arg /\ q.fwd = r.fwd /\ q.log = r.log /\ q.amount = r.amount
      /\ q.proto = r.proto /\ q.src = r.src /\ q.sp = r.sp /\ q.dst = r.dst /\ q.dp = r.dp
      /\ q.inif = r.inif /\ q.outif = r.outif /\ q.limit = r.limit /\ q.conns = r.conns
      /\ q.flags = r.flags \cup {} /\ q.set = r.set \cup st /\ q.clear = r.clear \cup cl
      /\ q.types = r.types \cup {}
  BY DEF IsRule
<1> HIDE DEF q
<1>2. With(r, {}, st, cl, {}) = q
  BY <1>1, SameWith
<1> QED
  BY <1>2 DEF q

LEMMA AddsSome ==
    ASSUME NEW s, NEW n, NEW r, Reached(s, n, r), IsRule(r), NEW k, NEW fl, NEW st, NEW cl, NEW ty
    PROVE  /\ Reached(s, n, With(r, {}, {}, {}, {}))
           /\ Reached([s EXCEPT !.at = @ + k, !.r.flags = @ \cup fl], n + k, With(r, fl, {}, {}, {}))
           /\ Reached([s EXCEPT !.at = @ + k, !.r.set = @ \cup st, !.r.clear = @ \cup cl],
                      n + k, With(r, {}, st, cl, {}))
           /\ Reached([s EXCEPT !.at = @ + k, !.r.types = @ \cup ty], n + k, With(r, {}, {}, {}, ty))
<1>1. /\ Reached([s EXCEPT !.at = @ + k, !.r.flags = @ \cup fl], n + k, [r EXCEPT !.flags = @ \cup fl])
      /\ Reached([s EXCEPT !.at = @ + k, !.r.set = @ \cup st, !.r.clear = @ \cup cl],
                 n + k, [r EXCEPT !.set = @ \cup st, !.clear = @ \cup cl])
      /\ Reached([s EXCEPT !.at = @ + k, !.r.types = @ \cup ty], n + k, [r EXCEPT !.types = @ \cup ty])
  BY DEF Reached, IsState
<1>2. With(r, {}, {}, {}, {}) = r
  BY WithSome
<1>3. With(r, fl, {}, {}, {}) = [r EXCEPT !.flags = @ \cup fl]
  BY WithSome
<1>4. With(r, {}, st, cl, {}) = [r EXCEPT !.set = @ \cup st, !.clear = @ \cup cl]
  BY WithMarks
<1>5. With(r, {}, {}, {}, ty) = [r EXCEPT !.types = @ \cup ty]
  BY WithSome
<1> QED
  BY <1>1, <1>2, <1>3, <1>4, <1>5

\* The words d stand for a direction, o for an option of a protocol.
DirectionMeans(d, fl) ==
    \/ d = <<>> /\ fl = {}
    \/ \E x \in {"in", "out"} : d = Words(x) /\ fl = {x}

OptionMeans(pr, o, fl, st, cl, ty) ==
    \/ o = <<>> /\ fl = {} /\ st = {} /\ cl = {} /\ ty = {}
    \/ /\ pr = "tcp" /\ o = Words("setup")
       /\ fl = {} /\ st = {<<"tcpflags", "syn">>} /\ cl = {<<"tcpflags", "ack">>} /\ ty = {}
    \/ /\ pr = "tcp" /\ o = Words("established")
       /\ fl = {"tcpest"} /\ st = {} /\ cl = {} /\ ty = {}
    \/ /\ pr = "tcp" /\ o = Words("frag")
       /\ fl = {"frag"} /\ st = {} /\ cl = {} /\ ty = {}
    \/ /\ pr = "ip" /\ fl = {} /\ cl = {} /\ ty = {}
       /\ \E x \in {"ssrr", "lsrr", "ts"} :
             o = << <<"ipoptions">>, <<"opts", {<<"+", x>>}>> >> /\ st = {<<"ipoptions", x>>}
    \/ /\ pr = "icmp" /\ fl = {} /\ st = {} /\ cl = {}
       /\ \E n \in {0, 3, 5} : o = << <<"icmptypes">>, <<"types", {n}>> >> /\ ty = {n}

LEMMA OneWord ==
    ASSUME NEW ws, NEW m \in Nat, NEW s, NEW r, Reached(s, m + 1, r), Len(ws) \in Nat, m + 1 <= Len(ws),
           NEW x, Holds(ws, m, Words(x))
    PROVE  Word(ws, s.at) = <<x>> /\ Round(ws, s) = Option(ws, s)
<1>1. Word(ws, m + 1) = <<x>>
  BY ShortTuples DEF Holds, Words
<1> QED
  BY <1>1 DEF Reached, Round

LEMMA NotEmpty ==
    ASSUME NEW s, Len(s) = 1 \/ Len(s) = 2
    PROVE  s # <<>>
<1>1. Len(<<>>) = 0
  BY ShortTuples
<1> QED
  BY <1>1

\* Where the loop is behind some words, if any.
RoundOf(ws, s, words) == IF words = <<>> THEN s ELSE Round(ws, s)

LEMMA DirectionRead ==
    ASSUME NEW ws, NEW m \in Nat, NEW s, NEW r, Reached(s, m + 1, r), IsRule(r), Len(ws) \in Nat,
           NEW d, NEW fl, DirectionMeans(d, fl), Holds(ws, m, d), m + Len(d) <= Len(ws)
    PROVE  Len(d) \in Nat /\ Reached(RoundOf(ws, s, d), m + 1 + Len(d), With(r, fl, {}, {}, {}))
<1>1. CASE d = <<>> /\ fl = {}
  <2>1. Len(d) = 0 /\ m + 1 + 0 = m + 1
    BY <1>1, ShortTuples
  <2> QED
    BY <1>1, <2>1, AddsSome DEF RoundOf
<1>2. ASSUME NEW x \in {"in", "out"}, d = Words(x), fl = {x}
      PROVE  Len(d) \in Nat /\ Reached(RoundOf(ws, s, d), m + 1 + Len(d), With(r, fl, {}, {}, {}))
  <2>1. Len(d) = 1
    BY <1>2, ShortTuples DEF Words
  <2>2. Word(ws, s.at) = <<x>> /\ Round(ws, s) = Option(ws, s)
    BY <1>2, <2>1, OneWord
  <2>3. Option(ws, s) = [s EXCEPT !.at = @ + 1, !.r.flags = @ \cup {x}]
    <3>1. Keyword(Word(ws, s.at)) = x
      BY <2>2 DEF Keyword
    <3> QED
      BY <3>1 DEF Option
  <2>4. Reached([s EXCEPT !.at = @ + 1, !.r.flags = @ \cup fl], (m + 1) + 1, With(r, fl, {}, {}, {}))
    BY AddsSome
  <2>5. Reached(Round(ws, s), (m + 1) + 1, With(r, fl, {}, {}, {}))
    BY <1>2, <2>2, <2>3, <2>4
  <2>6. d # <<>>
    BY <2>1, NotEmpty
  <2> QED
    BY <2>1, <2>5, <2>6 DEF RoundOf
<1> QED
  BY <1>1, <1>2 DEF DirectionMeans

\* An option of two words.
LEMMA TwoWords ==
    ASSUME NEW ws, NEW m \in Nat, NEW s, NEW r, Reached(s, m + 1, r), Len(ws) \in Nat, m + 2 <= Len(ws),
           NEW a, NEW b, Holds(ws, m, <<a, b>>)
    PROVE  /\ Word(ws, s.at) = a /\ Word(ws, s.at + 1) = b /\ Len(<<a, b>>) = 2
           /\ Round(ws, s) = Option(ws, s)
<1>1. Word(ws, m + 1) = a /\ Word(ws, m + 2) = b
  BY ShortTuples DEF Holds
<1>2. (m + 1) + 1 = m + 2 /\ Len(<<a, b>>) = 2
  BY ShortTuples
<1> QED
  BY <1>1, <1>2 DEF Reached, Round

LEMMA IpOptionRead ==
    ASSUME NEW s, NEW x \in {"ssrr", "lsrr", "ts"}
    PROVE  FillOpts(s, "ipoptions", {<<"+", x>>}) =
              [s EXCEPT !.at = @ + 2, !.r.set = @ \cup {<<"ipoptions", x>>}, !.r.clear = @ \cup {}]
<1> DEFINE marked == {<<"+", x>>}
           known == {o \in marked : o[2] \in Names["ipoptions"]}
           named(m) == {<<"ipoptions", o[2]>> : o \in {q \in known : q[1] = m}}
<1>1. known = marked
  BY DEF Names
<1>2. named("+") = {<<"ipoptions", x>>} /\ named("!") = {}
  <2>1. {q \in known : q[1] = "+"} = {<<"+", x>>} /\ {q \in known : q[1] = "!"} = {}
    BY <1>1
  <2>2. <<"+", x>>[2] = x
    OBVIOUS
  <2> HIDE DEF known
  <2> QED
    BY <2>1, <2>2
<1>3. FillOpts(s, "ipoptions", {<<"+", x>>}) =
        [s EXCEPT !.at = @ + 2, !.r.set = @ \cup named("+"), !.r.clear = @ \cup named("!")]
  BY DEF FillOpts
<1> QED
  BY <1>2, <1>3

LEMMA OptionRead ==
    ASSUME NEW ws, NEW m \in Nat, NEW s, NEW r, Reached(s, m + 1, r), IsRule(r), Len(ws) \in Nat,
           NEW o, NEW fl, NEW st, NEW cl, NEW ty, OptionMeans(r.proto, o, fl, st, cl, ty),
           Holds(ws, m, o), m + Len(o) <= Len(ws)
    PROVE  Len(o) \in Nat /\ Reached(RoundOf(ws, s, o), m + 1 + Len(o), With(r, fl, st, cl, ty))
<1>1. s.r.proto = r.proto /\ s.at = m + 1
  BY DEF Reached
<1>2. CASE o = <<>> /\ fl = {} /\ st = {} /\ cl = {} /\ ty = {}
  <2>1. Len(o) = 0 /\ m + 1 + 0 = m + 1
    BY <1>2, ShortTuples
  <2>2. Reached(s, m + 1, With(r, fl, st, cl, ty))
    BY <1>2, AddsSome
  <2> QED
    BY <1>2, <2>1, <2>2 DEF RoundOf
<1>3. CASE /\ r.proto = "tcp" /\ o = Words("setup")
           /\ fl = {} /\ st = {<<"tcpflags", "syn">>} /\ cl = {<<"tcpflags", "ack">>} /\ ty = {}
  <2>1. Len(o) = 1
    BY <1>3, ShortTuples DEF Words
  <2>2. Word(ws, s.at) = <<"setup">> /\ Round(ws, s) = Option(ws, s)
    BY <1>3, <2>1, OneWord
  <2>3. Option(ws, s) = [s EXCEPT !.at = @ + 1, !.r.set = @ \cup {<<"tcpflags", "syn">>},
                                  !.r.clear = @ \cup {<<"tcpflags", "ack">>}]
    <3>1. Keyword(Word(ws, s.at)) = "setup"
      BY <2>2 DEF Keyword
    <3> QED
      BY <1>1, <1>3, <3>1 DEF Option
  <2>4. Reached([s EXCEPT !.at = @ + 1, !.r.set = @ \cup st, !.r.clear = @ \cup cl],
                (m + 1) + 1, With(r, {}, st, cl, {}))
    BY AddsSome
  <2>5. Reached(Round(ws, s), (m + 1) + 1, With(r, fl, st, cl, ty))
    BY <1>3, <2>2, <2>3, <2>4
  <2>6. o # <<>>
    BY <2>1, NotEmpty
  <2> QED
    BY <2>1, <2>5, <2>6 DEF RoundOf
<1>4. CASE \/ /\ r.proto = "tcp" /\ o = Words("established")
              /\ fl = {"tcpest"} /\ st = {} /\ cl = {} /\ ty = {}
           \/ /\ r.proto = "tcp" /\ o = Words("frag")
              /\ fl = {"frag"} /\ st = {} /\ cl = {} /\ ty = {}
  <2>1. Len(o) = 1
    BY <1>4, ShortTuples DEF Words
  <2>2. o = Words("established") => Word(ws, s.at) = <<"established">>
    BY <2>1, OneWord
  <2>3. o = Words("frag") => Word(ws, s.at) = <<"frag">>
    BY <2>1, OneWord
  <2>4. Round(ws, s) = Option(ws, s)
    BY <2>1 DEF Reached, Round
  <2>5. Option(ws, s) = [s EXCEPT !.at = @ + 1, !.r.flags = @ \cup fl]
    <3>1. Keyword(<<"established">>) = "established" /\ Keyword(<<"frag">>) = "fragment"
      BY DEF Keyword
    <3>2. \/ Keyword(Word(ws, s.at)) = "established" /\ fl = {"tcpest"}
          \/ Keyword(Word(ws, s.at)) = "fragment" /\ fl = {"frag"}
      BY <1>4, <2>2, <2>3, <3>1
    <3> QED
      BY <1>1, <1>4, <3>2 DEF Option
  <2>6. Reached([s EXCEPT !.at = @ + 1, !.r.flags = @ \cup fl], (m + 1) + 1, With(r, fl, {}, {}, {}))
    BY AddsSome
  <2>7. Reached(Round(ws, s), (m + 1) + 1, With(r, fl, st, cl, ty))
    BY <1>4, <2>4, <2>5, <2>6
  <2>8. o # <<>>
    BY <2>1, NotEmpty
  <2> QED
    BY <2>1, <2>7, <2>8 DEF RoundOf
<1>5. ASSUME fl = {}, cl = {}, ty = {}, NEW x \in {"ssrr", "lsrr", "ts"},
             o = << <<"ipoptions">>, <<"opts", {<<"+", x>>}>> >>, st = {<<"ipoptions", x>>}
      PROVE  Len(o) \in Nat /\ Reached(RoundOf(ws, s, o), m + 1 + Len(o), With(r, fl, st, cl, ty))
  <2>1. Len(o) = 2
    BY <1>5, ShortTuples
  <2>2. Word(ws, s.at) = <<"ipoptions">> /\ Word(ws, s.at + 1) = <<"opts", {<<"+", x>>}>>
        /\ Round(ws, s) = Option(ws, s)
    BY <1>5, <2>1, TwoWords
  <2>3. Option(ws, s) = FillOpts(s, "ipoptions", {<<"+", x>>})
    <3>1. Keyword(Word(ws, s.at)) = "ipoptions"
      BY <2>2 DEF Keyword
    <3>2. Word(ws, s.at + 1)[1] = "opts" /\ Word(ws, s.at + 1)[2] = {<<"+", x>>}
      BY <2>2
    <3> QED
      BY <3>1, <3>2 DEF Option
  <2>4. Reached([s EXCEPT !.at = @ + 2, !.r.set = @ \cup st, !.r.clear = @ \cup cl],
                (m + 1) + 2, With(r, {}, st, cl, {}))
    BY AddsSome
  <2>5. Reached(Round(ws, s), (m + 1) + 2, With(r, fl, st, cl, ty))
    BY <1>5, <2>2, <2>3, <2>4, IpOptionRead
  <2>6. o # <<>>
    BY <2>1, NotEmpty
  <2> QED
    BY <2>1, <2>5, <2>6 DEF RoundOf
<1>6. ASSUME r.proto = "icmp", fl = {}, st = {}, cl = {}, NEW n \in {0, 3, 5},
             o = << <<"icmptypes">>, <<"types", {n}>> >>, ty = {n}
      PROVE  Len(o) \in Nat /\ Reached(RoundOf(ws, s, o), m + 1 + Len(o), With(r, fl, st, cl, ty))
  <2>1. Len(o) = 2
    BY <1>6, ShortTuples
  <2>2. Word(ws, s.at) = <<"icmptypes">> /\ Word(ws, s.at + 1) = <<"types", {n}>>
        /\ Round(ws, s) = Option(ws, s)
    BY <1>6, <2>1, TwoWords
  <2>3. Option(ws, s) = [s EXCEPT !.at = @ + 2, !.r.types = @ \cup ty]
    <3>1. Keyword(Word(ws, s.at)) = "icmptypes"
      BY <2>2 DEF Keyword
    <3>2. Word(ws, s.at + 1)[1] = "types" /\ Word(ws, s.at + 1)[2] = ty
      BY <1>6, <2>2
    <3>3. ~(\E t \in ty : t >= MaxType)
      BY <1>6, RoomAssumption
    <3> QED
      BY <1>1, <1>6, <3>1, <3>2, <3>3 DEF Option
  <2>4. Reached([s EXCEPT !.at = @ + 2, !.r.types = @ \cup ty], (m + 1) + 2, With(r, {}, {}, {}, ty))
    BY AddsSome
  <2>5. Reached(Round(ws, s), (m + 1) + 2, With(r, fl, st, cl, ty))
    BY <1>6, <2>2, <2>3, <2>4
  <2>6. o # <<>>
    BY <2>1, NotEmpty
  <2> QED
    BY <2>1, <2>5, <2>6 DEF RoundOf
<1> QED
  BY <1>2, <1>3, <1>4, <1>5, <1>6 DEF OptionMeans

\* A word that ipfw does not know ends the command.
LEMMA BadWord ==
    ASSUME NEW ws, NEW s, NEW n \in Nat, NEW r, Reached(s, n, r), Len(ws) \in Nat, n <= Len(ws),
           Word(ws, n) = <<"bad">>
    PROVE  ~Round(ws, s).ok /\ Round(ws, Round(ws, s)) = Round(ws, s)
<1>1. Round(ws, s) = Option(ws, s) /\ Keyword(Word(ws, s.at)) = "bad"
  BY DEF Reached, Round, Keyword
<1>2. Round(ws, s) = Error
  BY <1>1 DEF Option
<1> QED
  BY <1>2 DEF Round, Error

-----------------------------------------------------------------------------
(* A whole command *)

Sided(r, hf, pf, h, t) == [r EXCEPT ![hf] = HostOf(h), ![pf] = PortsOf(t)]

LEMMA SidedFields ==
    ASSUME NEW r, IsRule(r), NEW h, NEW t
    PROVE  /\ LET q == Sided(r, "src", "sp", h, t)
              IN  /\ IsRule(q)
                  /\ q.cmd = r.cmd /\ q.arg = r.arg /\ q.fwd = r.fwd /\ q.log = r.log /\ q.amount = r.amount
                  /\ q.proto = r.proto /\ q.src = HostOf(h) /\ q.sp = PortsOf(t) /\ q.dst = r.dst /\ q.dp = r.dp
                  /\ q.inif = r.inif /\ q.outif = r.outif /\ q.limit = r.limit /\ q.conns = r.conns
                  /\ q.flags = r.flags /\ q.set = r.set /\ q.clear = r.clear /\ q.types = r.types
           /\ LET q == Sided(r, "dst", "dp", h, t)
              IN  /\ IsRule(q)
                  /\ q.cmd = r.cmd /\ q.arg = r.arg /\ q.fwd = r.fwd /\ q.log = r.log /\ q.amount = r.amount
                  /\ q.proto = r.proto /\ q.src = r.src /\ q.sp = r.sp /\ q.dst = HostOf(h) /\ q.dp = PortsOf(t)
                  /\ q.inif = r.inif /\ q.outif = r.outif /\ q.limit = r.limit /\ q.conns = r.conns
                  /\ q.flags = r.flags /\ q.set = r.set /\ q.clear = r.clear /\ q.types = r.types
<1> DEFINE x == HostOf(h)
           y == PortsOf(t)
<1> HIDE DEF x, y
<1>1. /\ [r EXCEPT !["src"] = x, !["sp"] = y] = Sided(r, "src", "sp", h, t)
      /\ [r EXCEPT !["dst"] = x, !["dp"] = y] = Sided(r, "dst", "dp", h, t)
  BY DEF Sided, x, y
<1>2. LET q == [r EXCEPT !["src"] = x, !["sp"] = y]
      IN  /\ IsRule(q)
          /\ q.cmd = r.cmd /\ q.arg = r.arg /\ q.fwd = r.fwd /\ q.log = r.log /\ q.amount = r.amount
          /\ q.proto = r.proto /\ q.src = x /\ q.sp = y /\ q.dst = r.dst /\ q.dp = r.dp
          /\ q.inif = r.inif /\ q.outif = r.outif /\ q.limit = r.limit /\ q.conns = r.conns
          /\ q.flags = r.flags /\ q.set = r.set /\ q.clear = r.clear /\ q.types = r.types
  BY DEF IsRule
<1>3. LET q == [r EXCEPT !["dst"] = x, !["dp"] = y]
      IN  /\ IsRule(q)
          /\ q.cmd = r.cmd /\ q.arg = r.arg /\ q.fwd = r.fwd /\ q.log = r.log /\ q.amount = r.amount
          /\ q.proto = r.proto /\ q.src = r.src /\ q.sp = r.sp /\ q.dst = x /\ q.dp = y
          /\ q.inif = r.inif /\ q.outif = r.outif /\ q.limit = r.limit /\ q.conns = r.conns
          /\ q.flags = r.flags /\ q.set = r.set /\ q.clear = r.clear /\ q.types = r.types
  BY DEF IsRule
<1>4. x = HostOf(h) /\ y = PortsOf(t)
  BY DEF x, y
<1> QED
  BY <1>1, <1>2, <1>3, <1>4

\* A host without a port leaves the ports as they are, which is none.
LEMMA NoPortGiven ==
    ASSUME NEW r, IsRule(r), NEW h, NEW t, t = <<>> \/ t = << <<"bad">> >>
    PROVE  /\ r.sp = NoPorts => [r EXCEPT !["src"] = HostOf(h)] = Sided(r, "src", "sp", h, t)
           /\ r.dp = NoPorts => [r EXCEPT !["dst"] = HostOf(h)] = Sided(r, "dst", "dp", h, t)
<1>1. PortsOf(t) = NoPorts
  BY DEF PortsOf, NoPorts
<1> DEFINE x == HostOf(h)
           y == PortsOf(t)
<1> HIDE DEF x, y
<1>2. r.sp = y => [r EXCEPT !["src"] = x] = [r EXCEPT !["src"] = x, !["sp"] = y]
  BY DEF IsRule
<1>3. r.dp = y => [r EXCEPT !["dst"] = x] = [r EXCEPT !["dst"] = x, !["dp"] = y]
  BY DEF IsRule
<1> QED
  BY <1>1, <1>2, <1>3 DEF Sided, x, y

\* Where ipfw goes on behind ports: at the first of them if it cannot read it.
Behind(k, t) == IF t = <<>> \/ t = << <<"bad">> >> THEN k ELSE k + 1

LEMMA FromRead ==
    ASSUME NEW ws, NEW s, NEW r, Reached(s, 3, r), IsRule(r), r.sp = NoPorts, Holds(ws, 2, Words("from")),
           NEW h, HostWords(h), Holds(ws, 3, h), NEW t, PortWords(t), Holds(ws, 3 + Len(h), t),
           t = <<>> => Word(ws, 4 + Len(h))[1] # "ports"
    PROVE  LET q == FromPart(ws, s)
           IN  IF Refused(h) THEN ~q.ok
               ELSE Reached(q, Behind(4 + Len(h), t), Sided(r, "src", "sp", h, t))
<1> DEFINE q == HostPart(ws, s, "from", "src", "sp", 0)
<1>1. 2 + 1 = 3 /\ 2 + 2 + Len(h) = 4 + Len(h) /\ 0 + 1 <= MaxPorts /\ 2 \in Nat /\ 0 \in Nat
  BY SizeAssumption, RoomAssumption
<1>2. /\ Refused(h) => ~q.ok
      /\ ~Refused(h) /\ (t = <<>> \/ t = << <<"bad">> >>) =>
            Reached(q, 4 + Len(h), [r EXCEPT !["src"] = HostOf(h)])
      /\ ~Refused(h) /\ ~(t = <<>> \/ t = << <<"bad">> >>) =>
            Reached(q, 4 + Len(h) + 1, [r EXCEPT !["src"] = HostOf(h), !["sp"] = PortsOf(t)])
  <2>1. Reached(s, 2 + 1, r) /\ Holds(ws, 2 + 1, h) /\ Holds(ws, 2 + 1 + Len(h), t)
    OBVIOUS
  <2>2. "from" \in {"from", "to"} /\ (t = <<>> => Word(ws, 2 + 2 + Len(h))[1] # "ports")
    BY <1>1
  <2> HIDE DEF q
  <2> QED
    BY <1>1, <2>1, <2>2, HostTaken DEF q
<1>3. q = FromPart(ws, s)
  BY DEF FromPart
<1> HIDE DEF q
<1>4. CASE Refused(h)
  BY <1>2, <1>3, <1>4
<1>5. CASE ~Refused(h) /\ (t = <<>> \/ t = << <<"bad">> >>)
  <2>1. Behind(4 + Len(h), t) = 4 + Len(h)
    BY <1>5 DEF Behind
  <2>2. [r EXCEPT !["src"] = HostOf(h)] = Sided(r, "src", "sp", h, t)
    BY <1>5, NoPortGiven
  <2> QED
    BY <1>2, <1>3, <1>5, <2>1, <2>2
<1>6. CASE ~Refused(h) /\ ~(t = <<>> \/ t = << <<"bad">> >>)
  <2>1. Behind(4 + Len(h), t) = 4 + Len(h) + 1
    BY <1>6 DEF Behind
  <2> QED
    BY <1>2, <1>3, <1>6, <2>1 DEF Sided
<1> QED
  BY <1>4, <1>5, <1>6

LEMMA ToRead ==
    ASSUME NEW ws, NEW n \in Nat, NEW s, NEW r, Reached(s, n + 1, r), IsRule(r), r.dp = NoPorts,
           Holds(ws, n, Words("to")), Len(r.sp.ports) \in 0..1,
           NEW h, HostWords(h), Holds(ws, n + 1, h), NEW t, PortWords(t), Holds(ws, n + 1 + Len(h), t),
           t = <<>> => Word(ws, n + 2 + Len(h))[1] # "ports"
    PROVE  LET q == ToPart(ws, s)
           IN  IF Refused(h) THEN ~q.ok
               ELSE Reached(q, Behind(n + 2 + Len(h), t), Sided(r, "dst", "dp", h, t))
<1> DEFINE there == Len(r.sp.ports)
           q == HostPart(ws, s, "to", "dst", "dp", there)
<1>1. there \in 0..1
  OBVIOUS
<1>2. q = ToPart(ws, s)
  BY DEF ToPart, Reached
<1> HIDE DEF there
<1>3. there \in Nat /\ there + 1 <= MaxPorts /\ "to" \in {"from", "to"}
  BY <1>1, SizeAssumption, RoomAssumption
<1>4. /\ Refused(h) => ~q.ok
      /\ ~Refused(h) /\ (t = <<>> \/ t = << <<"bad">> >>) =>
            Reached(q, n + 2 + Len(h), [r EXCEPT !["dst"] = HostOf(h)])
      /\ ~Refused(h) /\ ~(t = <<>> \/ t = << <<"bad">> >>) =>
            Reached(q, n + 2 + Len(h) + 1, [r EXCEPT !["dst"] = HostOf(h), !["dp"] = PortsOf(t)])
  <2> HIDE DEF q
  <2> QED
    BY <1>3, HostTaken DEF q
<1> HIDE DEF q
<1>5. CASE Refused(h)
  BY <1>4, <1>2, <1>5
<1>6. CASE ~Refused(h) /\ (t = <<>> \/ t = << <<"bad">> >>)
  <2>1. Behind(n + 2 + Len(h), t) = n + 2 + Len(h)
    BY <1>6 DEF Behind
  <2>2. [r EXCEPT !["dst"] = HostOf(h)] = Sided(r, "dst", "dp", h, t)
    BY <1>6, NoPortGiven
  <2> QED
    BY <1>4, <1>2, <1>6, <2>1, <2>2
<1>7. CASE ~Refused(h) /\ ~(t = <<>> \/ t = << <<"bad">> >>)
  <2>1. Behind(n + 2 + Len(h), t) = n + 2 + Len(h) + 1
    BY <1>7 DEF Behind
  <2> QED
    BY <1>4, <1>2, <1>7, <2>1 DEF Sided
<1> QED
  BY <1>5, <1>6, <1>7

LEMMA FirstHeld ==
    ASSUME NEW ws, NEW n, NEW s, Len(s) = 1 \/ Len(s) = 2, Holds(ws, n, s)
    PROVE  Word(ws, n + 1) = s[1]
<1>1. 1 \in 1..Len(s)
  OBVIOUS
<1> QED
  BY <1>1 DEF Holds

\* No port follows the hosts but those given.
LEMMA FirstBehind ==
    ASSUME NEW ws, Len(ws) \in Nat, NEW n \in Nat, NEW d, NEW dfl, DirectionMeans(d, dfl),
           NEW pr, NEW o, NEW fl, NEW st, NEW cl, NEW ty, OptionMeans(pr, o, fl, st, cl, ty),
           NEW g \in Garbage, Holds(ws, n, d), Holds(ws, n + Len(d), o), Holds(ws, n + Len(d) + Len(o), g),
           Len(ws) = n + Len(d) + Len(o) + Len(g)
    PROVE  Word(ws, n + 1)[1] # "ports"
<1>1. d = <<>> \/ d = Words("in") \/ d = Words("out")
  BY DEF DirectionMeans
<1>2. \/ o = <<>> \/ o = Words("setup") \/ o = Words("established") \/ o = Words("frag")
      \/ \E x : o = << <<"ipoptions">>, x>>
      \/ \E x : o = << <<"icmptypes">>, x>>
  BY DEF OptionMeans
<1>3. g = <<>> \/ g = << <<"bad">> >>
  BY DEF Garbage
<1>4. CASE d # <<>>
  <2>1. Len(d) = 1 /\ (d[1] = <<"in">> \/ d[1] = <<"out">>)
    BY <1>1, <1>4, ShortTuples DEF Words
  <2>2. Word(ws, n + 1) = d[1]
    BY <2>1 DEF Holds
  <2> QED
    BY <2>1, <2>2
<1>5. CASE d = <<>> /\ o # <<>>
  <2>1. Len(d) = 0 /\ n + 0 = n
    BY <1>5, ShortTuples
  <2>2. Len(o) \in 1..2 /\ o[1][1] # "ports"
    BY <1>2, <1>5, ShortTuples DEF Words
  <2>3. Word(ws, n + 1) = o[1]
    BY <2>1, <2>2 DEF Holds
  <2> QED
    BY <2>2, <2>3
<1>6. CASE d = <<>> /\ o = <<>> /\ g # <<>>
  <2>1. Len(d) = 0 /\ Len(o) = 0 /\ n + 0 + 0 = n
    BY <1>6, ShortTuples
  <2>2. Len(g) = 1 /\ g[1] = <<"bad">>
    BY <1>3, <1>6, ShortTuples
  <2>3. Holds(ws, n, g)
    BY <2>1
  <2>4. Word(ws, n + 1) = g[1]
    BY <2>2, <2>3, FirstHeld
  <2> QED
    BY <2>2, <2>4
<1>7. CASE d = <<>> /\ o = <<>> /\ g = <<>>
  <2>1. Len(ws) = n
    BY <1>7, ShortTuples
  <2> QED
    BY <2>1 DEF Word
<1> QED
  BY <1>4, <1>5, <1>6, <1>7

\* The option loop reads direction and option, and stops at what is left behind them.
LEMMA RestRead ==
    ASSUME NEW ws, Len(ws) \in Nat, Len(ws) >= 3, NEW n \in Nat, NEW s, NEW r, Reached(s, n + 1, r), IsRule(r),
           PortsFit(s), NEW d, NEW dfl, DirectionMeans(d, dfl),
           NEW o, NEW fl, NEW st, NEW cl, NEW ty, OptionMeans(r.proto, o, fl, st, cl, ty),
           NEW g \in Garbage, Holds(ws, n, d), Holds(ws, n + Len(d), o), Holds(ws, n + Len(d) + Len(o), g),
           Len(d) \in Nat, Len(o) \in Nat, Len(g) \in Nat, Len(ws) = n + Len(d) + Len(o) + Len(g)
    PROVE  IF g = <<>>
           THEN Reached(Options(ws, s), Len(ws) + 1, With(With(r, dfl, {}, {}, {}), fl, st, cl, ty))
           ELSE ~Options(ws, s).ok
<1> DEFINE m == n + Len(d)
           r1 == With(r, dfl, {}, {}, {})
           r2 == With(r1, fl, st, cl, ty)
           a == RoundOf(ws, s, d)
           b == RoundOf(ws, a, o)
<1>1. Reached(a, m + 1, r1)
  <2>1. n + 1 + Len(d) = m + 1 /\ n + Len(d) <= Len(ws)
    OBVIOUS
  <2>2. Reached(RoundOf(ws, s, d), n + 1 + Len(d), With(r, dfl, {}, {}, {}))
    BY <2>1, DirectionRead
  <2> QED
    BY <2>1, <2>2
<1>2. m \in Nat /\ m + Len(o) <= Len(ws) /\ IsRule(r1) /\ r1.proto = r.proto
  BY WithFields
<1>3. a = s \/ a = Round(ws, s)
  BY DEF RoundOf
<1> HIDE DEF m, r1, a
<1>4. Reached(b, m + 1 + Len(o), r2)
  <2>1. Holds(ws, m, o) /\ OptionMeans(r1.proto, o, fl, st, cl, ty)
    BY <1>2 DEF m
  <2> QED
    BY <1>1, <1>2, <2>1, OptionRead
<1>5. b = a \/ b = Round(ws, a)
  BY DEF RoundOf
<1> HIDE DEF b, r2
<1>6. CASE g = <<>>
  <2>1. m + 1 + Len(o) = Len(ws) + 1
    BY <1>6, ShortTuples DEF m
  <2>2. Round(ws, b) = b
    BY <1>4, <2>1 DEF Reached, Round
  <2>3. Options(ws, s) = b
    BY <1>3, <1>5, <2>2, UpToThreeRounds
  <2> QED
    BY <1>4, <1>6, <2>1, <2>3 DEF r1, r2
<1>7. CASE g # <<>>
  <2>1. Len(g) = 1 /\ g[1] = <<"bad">>
    BY <1>7, ShortTuples DEF Garbage
  <2>2. m + 1 + Len(o) = n + Len(d) + Len(o) + 1 /\ m + 1 + Len(o) <= Len(ws) /\ m + 1 + Len(o) \in Nat
    BY <2>1 DEF m
  <2>3. Word(ws, m + 1 + Len(o)) = <<"bad">>
    <3>1. Word(ws, n + Len(d) + Len(o) + 1) = g[1]
      BY <2>1, FirstHeld
    <3> QED
      BY <2>1, <2>2, <3>1
  <2>4. PICK c : c = Round(ws, b) /\ ~c.ok /\ Round(ws, c) = c
    BY <1>4, <2>2, <2>3, BadWord
  <2>5. Options(ws, s) = c
    BY <1>3, <1>5, <2>4, UpToThreeRounds
  <2> QED
    BY <1>7, <2>4, <2>5
<1> QED
  BY <1>6, <1>7

\* What the command makes: a blank rule but for these fields.
Made(k, pr, src, sp, dst, dp, fl, st, cl, ty) ==
    [Blank EXCEPT !.cmd = k, !.proto = pr, !.src = src, !.dst = dst, !.sp = sp, !.dp = dp,
                  !.flags = fl, !.set = st, !.clear = cl, !.types = ty]

LEMMA BlankFields ==
    /\ IsRule(Blank) /\ ~Blank.log /\ Blank.amount = 0 /\ Blank.sp = NoPorts /\ Blank.dp = NoPorts
    /\ Blank.flags = {} /\ Blank.set = {} /\ Blank.clear = {} /\ Blank.types = {}
BY DEF IsRule, Blank

LEMMA MadeFields ==
    ASSUME NEW k, NEW pr, NEW src, NEW sp, NEW dst, NEW dp, NEW fl, NEW st, NEW cl, NEW ty
    PROVE  LET q == Made(k, pr, src, sp, dst, dp, fl, st, cl, ty)
           IN  /\ IsRule(q)
               /\ q.cmd = k /\ q.arg = Blank.arg /\ q.fwd = Blank.fwd /\ q.log = Blank.log
               /\ q.amount = Blank.amount /\ q.proto = pr
               /\ q.src = src /\ q.sp = sp /\ q.dst = dst /\ q.dp = dp
               /\ q.inif = Blank.inif /\ q.outif = Blank.outif
               /\ q.limit = Blank.limit /\ q.conns = Blank.conns
               /\ q.flags = fl /\ q.set = st /\ q.clear = cl /\ q.types = ty
BY BlankFields DEF Made, IsRule

LEMMA BegunFields ==
    ASSUME NEW k, NEW pr
    PROVE  LET q == Begun(k, pr)
           IN  /\ IsRule(q)
               /\ q.cmd = k /\ q.arg = Blank.arg /\ q.fwd = Blank.fwd /\ q.log = Blank.log
               /\ q.amount = Blank.amount /\ q.proto = pr
               /\ q.src = Blank.src /\ q.sp = Blank.sp /\ q.dst = Blank.dst /\ q.dp = Blank.dp
               /\ q.inif = Blank.inif /\ q.outif = Blank.outif
               /\ q.limit = Blank.limit /\ q.conns = Blank.conns
               /\ q.flags = Blank.flags /\ q.set = Blank.set /\ q.clear = Blank.clear /\ q.types = Blank.types
BY BlankFields DEF Begun, IsRule

\* After the words: both directions unless one was given; fragments have no ports.
BothWays(flags) == IF flags \cap {"in", "out"} = {} THEN flags \cup {"in", "out"} ELSE flags

FinishedWith(made, r) ==
    IF "frag" \in r.flags /\ r.sp.ports \o r.dp.ports # <<>> THEN ~made.ok
    ELSE made.ok /\ made.r = [r EXCEPT !.flags = BothWays(r.flags)]

LEMMA FinishRead ==
    ASSUME NEW s, NEW n, NEW r, Reached(s, n, r), IsRule(r), ~r.log, r.amount = 0, "oiface" \notin r.flags,
           "frag" \in r.flags => r.set = {} /\ r.clear = {}
    PROVE  FinishedWith(Finish(s), r)
<1> DEFINE dir == IF r.flags \cap {"in", "out"} = {} THEN {"in", "out"} ELSE {}
           f == r.flags \cup dir
           tcp == {o \in r.set \cup r.clear : o[1] = "tcpflags"}
           bad == "frag" \in f /\ (tcp # {} \/ r.sp.ports \o r.dp.ports # <<>>)
           q == [r EXCEPT !.flags = f \cup {}, !.amount = 0]
<1>1. s.r = r /\ ~s.via
  BY DEF Reached
<1>2. "oiface" \notin f /\ ("frag" \in f <=> "frag" \in r.flags)
  OBVIOUS
<1>3. "frag" \in r.flags => tcp = {}
  OBVIOUS
<1>4. Finish(s) = IF bad THEN Error ELSE [ok |-> TRUE, r |-> q]
  <2> DEFINE ifs == IF ~s.via THEN {}
                    ELSE (IF "in" \in f THEN {"iiface"} ELSE {}) \cup
                         (IF "out" \in f THEN {"oiface"} ELSE {})
             amount == IF ~r.log \/ r.amount = -1 THEN 0
                       ELSE IF r.amount = 0 THEN VerboseLimit ELSE r.amount
  <2>1. ~({"oiface", "in"} \subseteq f)
    BY <1>2
  <2>2. ifs = {} /\ amount = 0
    BY <1>1
  <2>3. Finish(s) = IF (~s.via /\ {"oiface", "in"} \subseteq f) \/ bad
                    THEN Error
                    ELSE [ok |-> TRUE, r |-> [r EXCEPT !.flags = f \cup ifs, !.amount = amount]]
    BY <1>1, Zenon DEF Finish
  <2> HIDE DEF f, bad, ifs, amount
  <2> QED
    BY <2>1, <2>2, <2>3
<1>5. bad <=> "frag" \in r.flags /\ r.sp.ports \o r.dp.ports # <<>>
  BY <1>2, <1>3
<1>6. f \cup {} = BothWays(r.flags)
  BY DEF BothWays
<1>7. q = [r EXCEPT !.flags = f \cup {}]
  <2> DEFINE x == f \cup {}
  <2> HIDE DEF x
  <2>1. [r EXCEPT !.flags = x, !.amount = 0] = [r EXCEPT !.flags = x]
    BY DEF IsRule
  <2> QED
    BY <2>1 DEF x
<1> HIDE DEF q, bad
<1>8. CASE bad
  BY <1>4, <1>5, <1>8 DEF Error, FinishedWith
<1>9. CASE ~bad
  <2>1. Finish(s).ok /\ Finish(s).r = q
    BY <1>4, <1>9
  <2> HIDE DEF f
  <2>2. q = [r EXCEPT !.flags = BothWays(r.flags)]
    BY <1>6, <1>7
  <2> QED
    BY <1>5, <1>9, <2>1, <2>2 DEF FinishedWith
<1> QED
  BY <1>8, <1>9

LEMMA HostShape ==
    ASSUME NEW h, HostWords(h)
    PROVE  IsTuple(h) /\ Len(h) \in 1..2
<1>1. (\E a : h = <<a>>) \/ (\E a, b : h = <<a, b>>)
  BY DEF HostWords
<1> QED
  BY <1>1, ShortTuples

LEMMA PortShape ==
    ASSUME NEW t, PortWords(t)
    PROVE  /\ IsTuple(t) /\ Len(t) \in 0..1 /\ (t = <<>> <=> Len(t) = 0)
           /\ (t = <<>> \/ t = << <<"bad">> >>) => PortsOf(t).ports = <<>>
           /\ ~(t = <<>> \/ t = << <<"bad">> >>) => Len(PortsOf(t).ports) = 1
           /\ IsTuple(PortsOf(t).ports)
<1>1. CASE t = <<>>
  BY <1>1, ShortTuples DEF PortsOf
<1>2. CASE t = << <<"bad">> >>
  <2>1. IsTuple(t) /\ Len(t) = 1 /\ Len(<<>>) = 0
    BY <1>2, ShortTuples
  <2> QED
    BY <1>2, <2>1, ShortTuples DEF PortsOf
<1>3. CASE t # <<>> /\ t # << <<"bad">> >>
  <2>1. PICK m \in Int : t = << <<"ports", <<m>>, <<>> >> >>
    BY <1>3, APort
  <2>2. IsTuple(t) /\ Len(t) = 1 /\ Len(<<>>) = 0
    BY <2>1, ShortTuples
  <2>3. PortsOf(t).ports = <<m>>
    BY <1>3, <2>1 DEF PortsOf
  <2> QED
    BY <1>3, <2>2, <2>3, ShortTuples
<1> QED
  BY <1>1, <1>2, <1>3

LEMMA BehindIs ==
    ASSUME NEW t, PortWords(t), t # << <<"bad">> >>, NEW k \in Nat
    PROVE  Behind(k, t) = k + Len(t)
<1>1. CASE t = <<>>
  BY <1>1, ShortTuples DEF Behind
<1>2. CASE t # <<>>
  <2>1. Len(t) = 1
    BY <1>2, PortShape
  <2> QED
    BY <1>2, <2>1 DEF Behind
<1> QED
  BY <1>1, <1>2

LEMMA HostsRead ==
    ASSUME NEW ws, NEW v, NEW pw, NEW src, NEW sp, NEW dst, NEW dp, NEW d, NEW o, NEW g \in Garbage,
           Laid(ws, v, pw, src, sp, dst, dp, d, o, g),
           NEW s, NEW r, Reached(s, 3, r), IsRule(r), r.sp = NoPorts, r.dp = NoPorts,
           HostWords(src), HostWords(dst), PortWords(sp), PortWords(dp),
           NEW dfl, DirectionMeans(d, dfl),
           NEW pr, NEW fl, NEW st, NEW cl, NEW ty, OptionMeans(pr, o, fl, st, cl, ty),
           Len(d) \in Nat, Len(o) \in Nat, Len(g) \in Nat,
           NEW n, n = 3 + Len(src) + Len(sp) + 1 + Len(dst) + Len(dp)
    PROVE  LET b == ToPart(ws, FromPart(ws, s))
               r2 == Sided(Sided(r, "src", "sp", src, sp), "dst", "dp", dst, dp)
           IN  /\ Refused(src) \/ Refused(dst) \/ sp = << <<"bad">> >> => ~b.ok
               /\ ~(Refused(src) \/ Refused(dst) \/ sp = << <<"bad">> >>) =>
                     IF dp = << <<"bad">> >> THEN Reached(b, n, r2) /\ Word(ws, n) = <<"bad">>
                     ELSE Reached(b, n + 1, r2)
<1> DEFINE m == 3 + Len(src) + Len(sp)
           a == FromPart(ws, s)
           b == ToPart(ws, a)
           r1 == Sided(r, "src", "sp", src, sp)
           r2 == Sided(r1, "dst", "dp", dst, dp)
<1>1. Len(src) \in 1..2 /\ Len(dst) \in 1..2 /\ Len(sp) \in 0..1 /\ Len(dp) \in 0..1
  BY HostShape, PortShape
<1>2. /\ Holds(ws, 2, Words("from")) /\ Holds(ws, 3, src) /\ Holds(ws, 3 + Len(src), sp)
      /\ Holds(ws, m, Words("to")) /\ Holds(ws, m + 1, dst) /\ Holds(ws, m + 1 + Len(dst), dp)
      /\ Holds(ws, n, d) /\ Holds(ws, n + Len(d), o) /\ Holds(ws, n + Len(d) + Len(o), g)
      /\ Len(ws) = n + Len(d) + Len(o) + Len(g)
  BY DEF Laid
<1>3. n = m + 1 + Len(dst) + Len(dp) /\ n \in Nat /\ m \in Nat /\ Len(ws) \in Nat
  BY <1>1, <1>2
<1>4. Word(ws, m + 1) = <<"to">>
  BY <1>2, ShortTuples, FirstHeld DEF Words
<1>5. sp = <<>> => Word(ws, 4 + Len(src))[1] # "ports"
  <2>1. sp = <<>> => 4 + Len(src) = m + 1
    BY <1>1, ShortTuples
  <2> QED
    BY <1>4, <2>1
<1>6. dp = <<>> => Word(ws, m + 2 + Len(dst))[1] # "ports"
  <2>1. dp = <<>> => m + 2 + Len(dst) = n + 1
    BY <1>1, <1>3, ShortTuples
  <2>2. Word(ws, n + 1)[1] # "ports"
    BY <1>2, <1>3, FirstBehind
  <2> QED
    BY <2>1, <2>2
<1> HIDE DEF m
<1>7. IF Refused(src) THEN ~a.ok ELSE Reached(a, Behind(4 + Len(src), sp), r1)
  BY <1>2, <1>5, FromRead
<1>8. IsRule(r1) /\ r1.dp = NoPorts /\ r1.sp = PortsOf(sp)
  BY SidedFields
<1> HIDE DEF a, r1
<1>9. CASE Refused(src)
  <2>1. ~b.ok
    BY <1>7, <1>9 DEF ToPart, HostPart
  <2> QED
    BY <1>9, <2>1 DEF a, r1
<1>10. CASE ~Refused(src) /\ sp = << <<"bad">> >>
  <2>1. Reached(a, 4 + Len(src), r1)
    BY <1>7, <1>10 DEF Behind
  <2>2. Word(ws, 4 + Len(src)) = <<"bad">>
    <3>1. Len(sp) = 1 /\ sp[1] = <<"bad">> /\ 3 + Len(src) + 1 = 4 + Len(src)
      BY <1>1, <1>10, ShortTuples
    <3>2. Holds(ws, 3 + Len(src), sp)
      BY <1>2
    <3>3. Word(ws, 3 + Len(src) + 1) = sp[1]
      BY <3>1, <3>2, FirstHeld, Zenon
    <3> QED
      BY <3>1, <3>3, Zenon
  <2>3. ~Is(ws, a.at, "to") /\ a.ok
    BY <2>1, <2>2 DEF Is, Keyword, Reached
  <2>4. b = Error
    BY <2>3 DEF ToPart, HostPart
  <2>5. ~b.ok
    BY <2>4 DEF Error
  <2> QED
    BY <1>10, <2>5 DEF a, r1
<1>11. CASE ~Refused(src) /\ sp # << <<"bad">> >>
  <2>1. Reached(a, m + 1, r1)
    <3> DEFINE k == 4 + Len(src)
    <3>1. k \in Nat /\ k + Len(sp) = m + 1
      BY <1>1 DEF m
    <3> HIDE DEF k
    <3>2. Behind(k, sp) = k + Len(sp)
      BY <1>11, <3>1, BehindIs
    <3> QED
      BY <1>7, <1>11, <3>1, <3>2 DEF k
  <2>2. Len(r1.sp.ports) \in 0..1
    BY <1>8, PortShape, ShortTuples
  <2>3. IF Refused(dst) THEN ~b.ok ELSE Reached(b, Behind(m + 2 + Len(dst), dp), r2)
    BY <1>2, <1>3, <1>6, <1>8, <2>1, <2>2, ToRead
  <2>4. dp # << <<"bad">> >> => Behind(m + 2 + Len(dst), dp) = n + 1
    <3> DEFINE k == m + 2 + Len(dst)
    <3>1. k \in Nat /\ k + Len(dp) = n + 1
      BY <1>1, <1>3
    <3> HIDE DEF k
    <3>2. dp # << <<"bad">> >> => Behind(k, dp) = k + Len(dp)
      BY <3>1, BehindIs
    <3> QED
      BY <3>1, <3>2 DEF k
  <2>5. dp = << <<"bad">> >> => Behind(m + 2 + Len(dst), dp) = n /\ Word(ws, n) = <<"bad">>
    <3> HAVE dp = << <<"bad">> >>
    <3>1. Len(dp) = 1 /\ dp[1] = <<"bad">>
      BY ShortTuples
    <3>2. m + 2 + Len(dst) = n /\ m + 1 + Len(dst) + 1 = n
      BY <1>1, <1>3, <3>1
    <3> QED
      BY <1>2, <3>1, <3>2, FirstHeld DEF Behind
  <2> HIDE DEF b, r2
  <2>6. IF Refused(dst) THEN ~b.ok
        ELSE IF dp = << <<"bad">> >> THEN Reached(b, n, r2) /\ Word(ws, n) = <<"bad">>
        ELSE Reached(b, n + 1, r2)
    BY <2>3, <2>4, <2>5
  <2> QED
    BY <1>11, <2>6 DEF a, b, r1, r2
<1> QED
  BY <1>9, <1>10, <1>11

LEMMA JoinedPorts ==
    ASSUME NEW s, NEW t, PortWords(s), PortWords(t), s # << <<"bad">> >>, t # << <<"bad">> >>
    PROVE  PortsOf(s).ports \o PortsOf(t).ports = <<>> <=> s = <<>> /\ t = <<>>
<1> DEFINE x == PortsOf(s).ports
           y == PortsOf(t).ports
<1>1. /\ IsTuple(x) /\ IsTuple(y)
      /\ (s = <<>> => x = <<>>) /\ (s # <<>> => Len(x) = 1)
      /\ (t = <<>> => y = <<>>) /\ (t # <<>> => Len(y) = 1)
  BY PortShape
<1> HIDE DEF x, y
<1>2. Len(x \o y) = Len(x) + Len(y) /\ Len(x) \in Nat /\ Len(y) \in Nat
  BY <1>1, Joined
<1>3. s = <<>> /\ t = <<>> => x \o y = <<>>
  BY <1>1
<1>4. s # <<>> \/ t # <<>> => x \o y # <<>>
  BY <1>1, <1>2, ShortTuples
<1> QED
  BY <1>3, <1>4 DEF x, y

\* What direction and option may add.
Adds(dfl, fl, st, cl) ==
    /\ dfl \in {{}, {"in"}, {"out"}} /\ fl \in {{}, {"tcpest"}, {"frag"}}
    /\ "frag" \in fl => st = {} /\ cl = {}

LEMMA MeaningsAdd ==
    ASSUME NEW d, NEW dfl, DirectionMeans(d, dfl),
           NEW pr, NEW o, NEW fl, NEW st, NEW cl, NEW ty, OptionMeans(pr, o, fl, st, cl, ty)
    PROVE  Adds(dfl, fl, st, cl)
BY DEF DirectionMeans, OptionMeans, Adds

\* The rule behind the words.
Read(k, pr, src, sp, dst, dp, dfl, fl, st, cl, ty) ==
    With(With(Sided(Sided(Begun(k, pr), "src", "sp", src, sp), "dst", "dp", dst, dp), dfl, {}, {}, {}),
         fl, st, cl, ty)

\* What ipfw ends with: fragments have no ports, and a rule has both directions unless one
\* was given.
Ends(made, k, pr, src, sp, dst, dp, dfl, fl, st, cl, ty) ==
    IF "frag" \in fl /\ ~(sp = <<>> /\ dp = <<>>) THEN ~made.ok
    ELSE /\ made.ok
         /\ made.r = Made(k, pr, HostOf(src), PortsOf(sp), HostOf(dst), PortsOf(dp),
                          (IF dfl = {} THEN {"in", "out"} ELSE dfl) \cup fl, st, cl, ty)

LEMMA RuleMade ==
    ASSUME NEW s, NEW at, NEW k, NEW pr, NEW src, NEW sp, NEW dst, NEW dp, PortWords(sp), PortWords(dp),
           sp # << <<"bad">> >>, dp # << <<"bad">> >>,
           NEW dfl, NEW fl, NEW st, NEW cl, NEW ty, Adds(dfl, fl, st, cl),
           Reached(s, at, Read(k, pr, src, sp, dst, dp, dfl, fl, st, cl, ty))
    PROVE  Ends(Finish(s), k, pr, src, sp, dst, dp, dfl, fl, st, cl, ty)
<1> DEFINE r0 == Begun(k, pr)
           r1 == Sided(r0, "src", "sp", src, sp)
           r2 == Sided(r1, "dst", "dp", dst, dp)
           r3 == With(r2, dfl, {}, {}, {})
           r4 == With(r3, fl, st, cl, ty)
           hs == HostOf(src)
           hd == HostOf(dst)
           ps == PortsOf(sp)
           pd == PortsOf(dp)
<1>16. Reached(s, at, r4)
  BY DEF Read
<1>1. /\ IsRule(r0) /\ r0.cmd = k /\ r0.arg = Blank.arg /\ r0.fwd = Blank.fwd /\ r0.log = Blank.log
      /\ r0.amount = Blank.amount /\ r0.proto = pr
      /\ r0.inif = Blank.inif /\ r0.outif = Blank.outif /\ r0.limit = Blank.limit /\ r0.conns = Blank.conns
      /\ r0.flags = {} /\ r0.set = {} /\ r0.clear = {} /\ r0.types = {}
  BY BegunFields, BlankFields
<1> HIDE DEF r0
<1>2. /\ IsRule(r1) /\ r1.cmd = r0.cmd /\ r1.arg = r0.arg /\ r1.fwd = r0.fwd /\ r1.log = r0.log
      /\ r1.amount = r0.amount /\ r1.proto = r0.proto /\ r1.src = hs /\ r1.sp = ps
      /\ r1.inif = r0.inif /\ r1.outif = r0.outif /\ r1.limit = r0.limit /\ r1.conns = r0.conns
      /\ r1.flags = r0.flags /\ r1.set = r0.set /\ r1.clear = r0.clear /\ r1.types = r0.types
  BY <1>1, SidedFields
<1> HIDE DEF r1
<1>3. /\ IsRule(r2) /\ r2.cmd = r1.cmd /\ r2.arg = r1.arg /\ r2.fwd = r1.fwd /\ r2.log = r1.log
      /\ r2.amount = r1.amount /\ r2.proto = r1.proto
      /\ r2.src = r1.src /\ r2.sp = r1.sp /\ r2.dst = hd /\ r2.dp = pd
      /\ r2.inif = r1.inif /\ r2.outif = r1.outif /\ r2.limit = r1.limit /\ r2.conns = r1.conns
      /\ r2.flags = r1.flags /\ r2.set = r1.set /\ r2.clear = r1.clear /\ r2.types = r1.types
  BY <1>2, SidedFields
<1> HIDE DEF r2
<1>4. /\ IsRule(r3) /\ r3.cmd = r2.cmd /\ r3.arg = r2.arg /\ r3.fwd = r2.fwd /\ r3.log = r2.log
      /\ r3.amount = r2.amount /\ r3.proto = r2.proto
      /\ r3.src = r2.src /\ r3.sp = r2.sp /\ r3.dst = r2.dst /\ r3.dp = r2.dp
      /\ r3.inif = r2.inif /\ r3.outif = r2.outif /\ r3.limit = r2.limit /\ r3.conns = r2.conns
      /\ r3.flags = r2.flags \cup dfl /\ r3.set = r2.set \cup {} /\ r3.clear = r2.clear \cup {}
      /\ r3.types = r2.types \cup {}
  BY <1>3 DEF With, IsRule
<1> HIDE DEF r3
<1>5. /\ IsRule(r4) /\ r4.cmd = r3.cmd /\ r4.arg = r3.arg /\ r4.fwd = r3.fwd /\ r4.log = r3.log
      /\ r4.amount = r3.amount /\ r4.proto = r3.proto
      /\ r4.src = r3.src /\ r4.sp = r3.sp /\ r4.dst = r3.dst /\ r4.dp = r3.dp
      /\ r4.inif = r3.inif /\ r4.outif = r3.outif /\ r4.limit = r3.limit /\ r4.conns = r3.conns
      /\ r4.flags = r3.flags \cup fl /\ r4.set = r3.set \cup st /\ r4.clear = r3.clear \cup cl
      /\ r4.types = r3.types \cup ty
  BY <1>4, WithFields
<1> HIDE DEF r4
<1>6. r4.flags = dfl \cup fl /\ r4.set = st /\ r4.clear = cl /\ r4.types = ty
  BY <1>1, <1>2, <1>3, <1>4, <1>5
<1>7. ~r4.log /\ r4.amount = 0
  BY <1>1, <1>2, <1>3, <1>4, <1>5, BlankFields
<1>8. dfl \in {{}, {"in"}, {"out"}} /\ fl \in {{}, {"tcpest"}, {"frag"}}
      /\ ("frag" \in fl => st = {} /\ cl = {})
  BY DEF Adds
<1>9. /\ "oiface" \notin r4.flags /\ ("frag" \in r4.flags <=> "frag" \in fl)
      /\ ("frag" \in r4.flags => r4.set = {} /\ r4.clear = {})
  BY <1>6, <1>8
<1>10. (r4.sp.ports \o r4.dp.ports # <<>>) <=> ~(sp = <<>> /\ dp = <<>>)
  <2>1. r4.sp = PortsOf(sp) /\ r4.dp = PortsOf(dp)
    BY <1>2, <1>3, <1>4, <1>5
  <2> QED
    BY <2>1, JoinedPorts
<1> DEFINE f == BothWays(r4.flags)
           q == [r4 EXCEPT !.flags = f]
           x == (IF dfl = {} THEN {"in", "out"} ELSE dfl) \cup fl
           made == Made(k, pr, hs, ps, hd, pd, x, st, cl, ty)
<1>11. IF "frag" \in r4.flags /\ r4.sp.ports \o r4.dp.ports # <<>> THEN ~Finish(s).ok
       ELSE Finish(s).ok /\ Finish(s).r = q
  <2>1. IsRule(r4) /\ ~r4.log /\ r4.amount = 0 /\ "oiface" \notin r4.flags
        /\ ("frag" \in r4.flags => r4.set = {} /\ r4.clear = {})
    BY <1>5, <1>7, <1>9
  <2>2. FinishedWith(Finish(s), r4)
    BY <1>16, <2>1, FinishRead, Zenon
  <2> QED
    BY <2>2, Zenon DEF FinishedWith
<1>12. f = x
  BY <1>6, <1>8 DEF BothWays
<1> HIDE DEF f, x, hs, hd, ps, pd
<1>13. /\ IsRule(q) /\ q.flags = f
       /\ q.cmd = r4.cmd /\ q.arg = r4.arg /\ q.fwd = r4.fwd /\ q.log = r4.log
       /\ q.amount = r4.amount /\ q.proto = r4.proto
       /\ q.src = r4.src /\ q.sp = r4.sp /\ q.dst = r4.dst /\ q.dp = r4.dp
       /\ q.inif = r4.inif /\ q.outif = r4.outif /\ q.limit = r4.limit /\ q.conns = r4.conns
       /\ q.set = r4.set /\ q.clear = r4.clear /\ q.types = r4.types
  BY <1>5 DEF IsRule
<1>14. /\ IsRule(made) /\ made.cmd = k /\ made.arg = Blank.arg /\ made.fwd = Blank.fwd
       /\ made.log = Blank.log /\ made.amount = Blank.amount /\ made.proto = pr
       /\ made.src = hs /\ made.sp = ps /\ made.dst = hd /\ made.dp = pd
       /\ made.inif = Blank.inif /\ made.outif = Blank.outif
       /\ made.limit = Blank.limit /\ made.conns = Blank.conns
       /\ made.flags = x /\ made.set = st /\ made.clear = cl /\ made.types = ty
  BY MadeFields
<1> HIDE DEF q, made
<1>15. q = made
  BY <1>1, <1>2, <1>3, <1>4, <1>5, <1>6, <1>12, <1>13, <1>14, SameRecord
<1> QED
  BY <1>9, <1>10, <1>11, <1>15 DEF Ends, made, hs, hd, ps, pd, x

\* What ipfw cannot read in the command of a filter screen.
Unread(src, sp, dst, dp, fl) ==
    \/ Refused(src) \/ Refused(dst)
    \/ sp = << <<"bad">> >> \/ dp = << <<"bad">> >>
    \/ "frag" \in fl /\ ~(sp = <<>> /\ dp = <<>>)

\* What ipfw makes of such a line, with g behind it.
Taken(ws, k, pr, src, sp, dst, dp, dfl, fl, st, cl, ty, g) ==
    IF Unread(src, sp, dst, dp, fl) \/ g # <<>> THEN ~Parse(ws).ok
    ELSE /\ Parse(ws).ok
         /\ Parse(ws).r = Made(k, pr, HostOf(src), PortsOf(sp), HostOf(dst), PortsOf(dp),
                               (IF dfl = {} THEN {"in", "out"} ELSE dfl) \cup fl, st, cl, ty)

LEMMA CommandRead ==
    ASSUME NEW k \in VerbWord, NEW pr \in ProtocolWord, ~(k = "reset" /\ pr # "tcp"),
           NEW src, NEW sp, NEW dst, NEW dp,
           HostWords(src), HostWords(dst), PortWords(sp), PortWords(dp),
           pr \in {"tcp", "udp"} \/ (sp = <<>> /\ dp = <<>>),
           NEW d, NEW dfl, DirectionMeans(d, dfl),
           NEW o, NEW fl, NEW st, NEW cl, NEW ty, OptionMeans(pr, o, fl, st, cl, ty), NEW g \in Garbage,
           IsTuple(d), IsTuple(o), IsTuple(g),
           NEW ws, ws = Line(Words(k), Words(pr), src, sp, dst, dp, d, o, g)
    PROVE  Taken(ws, k, pr, src, sp, dst, dp, dfl, fl, st, cl, ty, g)
<1> SUFFICES IF Unread(src, sp, dst, dp, fl) \/ g # <<>> THEN ~Parse(ws).ok
             ELSE /\ Parse(ws).ok
                  /\ Parse(ws).r = Made(k, pr, HostOf(src), PortsOf(sp), HostOf(dst), PortsOf(dp),
                                        (IF dfl = {} THEN {"in", "out"} ELSE dfl) \cup fl, st, cl, ty)
  BY DEF Taken
<1> DEFINE n == 3 + Len(src) + Len(sp) + 1 + Len(dst) + Len(dp)
           act == ActionPart(ws, Start)
           s == ProtoPart(ws, LogPart(ws, act))
           b == ToPart(ws, FromPart(ws, s))
           all == Options(ws, b)
           r0 == Begun(k, pr)
           r2 == Sided(Sided(r0, "src", "sp", src, sp), "dst", "dp", dst, dp)
           r4 == With(With(r2, dfl, {}, {}, {}), fl, st, cl, ty)
<1>1. Laid(ws, Words(k), Words(pr), src, sp, dst, dp, d, o, g)
  <2>1. /\ IsTuple(Words(k)) /\ IsTuple(Words(pr)) /\ Len(Words(k)) = 1 /\ Len(Words(pr)) = 1
        /\ IsTuple(src) /\ IsTuple(sp) /\ IsTuple(dst) /\ IsTuple(dp)
    BY HostShape, PortShape, ShortTuples DEF Words
  <2> QED
    BY <2>1, LineIsLaid
<1>2. /\ Len(src) \in 1..2 /\ Len(dst) \in 1..2 /\ Len(sp) \in 0..1 /\ Len(dp) \in 0..1
      /\ Len(d) \in Nat /\ Len(o) \in Nat /\ Len(g) \in Nat
  BY HostShape, PortShape, Appended
<1>3. /\ n \in Nat /\ n >= 6 /\ Len(ws) = n + Len(d) + Len(o) + Len(g)
      /\ Len(ws) \in Nat /\ Len(ws) >= 3 /\ n <= Len(ws)
      /\ Holds(ws, n, d) /\ Holds(ws, n + Len(d), o) /\ Holds(ws, n + Len(d) + Len(o), g)
  <2>1. /\ Len(ws) = n + Len(d) + Len(o) + Len(g)
        /\ Holds(ws, n, d) /\ Holds(ws, n + Len(d), o) /\ Holds(ws, n + Len(d) + Len(o), g)
    BY <1>1 DEF Laid
  <2>2. n \in Nat /\ n >= 6
    <3>1. /\ Len(src) \in Nat /\ Len(dst) \in Nat /\ Len(sp) \in Nat /\ Len(dp) \in Nat
          /\ Len(src) >= 1 /\ Len(dst) >= 1
      BY <1>2
    <3> QED
      BY <3>1
  <2> HIDE DEF n
  <2> QED
    BY <1>2, <2>1, <2>2
<1>4. Reached(s, 3, r0) /\ act.r.cmd # "check-state"
  <2>1. Holds(ws, 0, Words(k)) /\ Holds(ws, 1, Words(pr))
    BY <1>1 DEF Laid
  <2>2. Word(ws, 1) = <<k>> /\ Word(ws, 2) = <<pr>>
    <3>1. Len(Words(k)) = 1 /\ Words(k)[1] = <<k>> /\ Len(Words(pr)) = 1 /\ Words(pr)[1] = <<pr>>
      BY ShortTuples DEF Words
    <3>2. Word(ws, 0 + 1) = <<k>> /\ Word(ws, 1 + 1) = <<pr>>
      BY <2>1, <3>1, FirstHeld
    <3> QED
      BY <3>2
  <2> QED
    BY <2>2, Begins
<1>5. Parse(ws) = IF all.ok THEN Finish(all) ELSE Error
  BY <1>4 DEF Parse
<1>6. IsRule(r0) /\ r0.sp = NoPorts /\ r0.dp = NoPorts /\ r0.proto = pr
  BY BegunFields, BlankFields
<1> HIDE DEF act, s, n, r0
<1>7. IsRule(r2) /\ r2.proto = pr /\ r2.sp = PortsOf(sp) /\ r2.dp = PortsOf(dp)
  <2> DEFINE r1 == Sided(r0, "src", "sp", src, sp)
  <2>1. IsRule(r1) /\ r1.proto = pr /\ r1.sp = PortsOf(sp)
    BY <1>6, SidedFields
  <2> HIDE DEF r1
  <2>2. LET q == Sided(r1, "dst", "dp", dst, dp)
        IN IsRule(q) /\ q.proto = pr /\ q.sp = PortsOf(sp) /\ q.dp = PortsOf(dp)
    BY <2>1, SidedFields
  <2> QED
    BY <2>2 DEF r1
<1>8. /\ Refused(src) \/ Refused(dst) \/ sp = << <<"bad">> >> => ~b.ok
      /\ ~(Refused(src) \/ Refused(dst) \/ sp = << <<"bad">> >>) =>
            IF dp = << <<"bad">> >> THEN Reached(b, n, r2) /\ Word(ws, n) = <<"bad">>
            ELSE Reached(b, n + 1, r2)
  <2>1. n = 3 + Len(src) + Len(sp) + 1 + Len(dst) + Len(dp)
    BY DEF n
  <2> QED
    BY <1>1, <1>2, <1>4, <1>6, <2>1, HostsRead
<1> HIDE DEF b, r2
<1>9. \A at : Reached(b, at, r2) => PortsFit(b)
  <2>1. r2.proto \in {"tcp", "udp"} \/ r2.sp.ports \o r2.dp.ports = <<>>
    <3>1. CASE pr \in {"tcp", "udp"}
      BY <1>7, <3>1
    <3>2. CASE sp = <<>> /\ dp = <<>>
      <4>1. sp # << <<"bad">> >> /\ dp # << <<"bad">> >>
        BY <3>2
      <4> QED
        BY <1>7, <3>2, <4>1, JoinedPorts
    <3> QED
      BY <3>1, <3>2
  <2> QED
    BY <2>1 DEF Reached, PortsFit
<1>10. CASE Refused(src) \/ Refused(dst) \/ sp = << <<"bad">> >>
  <2>1. ~all.ok
    BY <1>3, <1>8, <1>10, RefusedIsRefused
  <2> QED
    BY <1>5, <1>10, <2>1 DEF Error, Unread
<1>11. CASE ~(Refused(src) \/ Refused(dst) \/ sp = << <<"bad">> >>) /\ dp = << <<"bad">> >>
  <2> DEFINE c == Round(ws, b)
  <2>1. ~c.ok /\ Round(ws, c) = c
    BY <1>3, <1>8, <1>11, BadWord
  <2> HIDE DEF c
  <2>2. all = c
    BY <1>3, <1>8, <1>9, <1>11, <2>1, UpToThreeRounds DEF c
  <2> QED
    BY <1>5, <1>11, <2>1, <2>2 DEF Error, Unread
<1>12. CASE ~(Refused(src) \/ Refused(dst) \/ sp = << <<"bad">> >>) /\ dp # << <<"bad">> >>
  <2>1. Reached(b, n + 1, r2) /\ PortsFit(b)
    BY <1>8, <1>9, <1>12
  <2>2. IF g = <<>> THEN Reached(all, Len(ws) + 1, r4) ELSE ~all.ok
    <3>1. OptionMeans(r2.proto, o, fl, st, cl, ty)
      BY <1>7
    <3> HIDE DEF n
    <3> QED
      BY <1>2, <1>3, <1>7, <2>1, <3>1, RestRead, ZenonT(60)
  <2> HIDE DEF all, r4
  <2>3. CASE g # <<>>
    BY <1>5, <2>2, <2>3 DEF Error
  <2>4. CASE g = <<>>
    <3>1. Ends(Finish(all), k, pr, src, sp, dst, dp, dfl, fl, st, cl, ty)
      <4>1. Reached(all, Len(ws) + 1, Read(k, pr, src, sp, dst, dp, dfl, fl, st, cl, ty))
        BY <2>2, <2>4 DEF r0, r2, r4, Read
      <4>2. Adds(dfl, fl, st, cl)
        BY MeaningsAdd
      <4> QED
        BY <1>12, <4>1, <4>2, RuleMade
    <3>2. all.ok
      BY <2>2, <2>4 DEF Reached
    <3>3. Unread(src, sp, dst, dp, fl) <=> "frag" \in fl /\ ~(sp = <<>> /\ dp = <<>>)
      BY <1>12 DEF Unread
    <3> QED
      BY <1>5, <2>4, <3>1, <3>2, <3>3 DEF Ends
  <2> QED
    BY <2>3, <2>4
<1> QED
  BY <1>10, <1>11, <1>12

-----------------------------------------------------------------------------
(* From the fields of a filter screen to its command *)

BadHost(h) == \E i \in DOMAIN h : h[i] = <<"bad">> \/ (h[i][1] = "net" /\ h[i][3] > Width)

LEMMA HostField ==
    ASSUME NEW t, HostLine(t), NEW h, h = IF t = EmptyText THEN << <<"any">> >> ELSE t
    PROVE  HostWords(h) /\ HostOf(h) = HostMeant(t) /\ (Refused(h) <=> BadHost(t))
<1>1. CASE t = EmptyText
  <2>1. h = << <<"any">> >> /\ h = <<h[1]>> /\ Len(h) = 1 /\ DOMAIN h = 1..1 /\ h[1] = <<"any">>
    BY <1>1, ShortTuples
  <2>2. Len(t) = 0 /\ DOMAIN t = {}
    BY <1>1, ShortTuples DEF EmptyText
  <2>3. HostWords(h)
    BY <2>1 DEF HostWords, HostWord
  <2>4. HostOf(h) = HostMeant(t)
    <3>1. HostOf(h) = HostAs(<<"any">>, Len(h) = 2)
      BY <2>1 DEF HostOf
    <3>2. HostMeant(t) = HostAs(<<"any">>, Len(t) = 2)
      BY <1>1 DEF HostMeant, HostAs
    <3>3. (Len(h) = 2) = (Len(t) = 2)
      BY <2>1, <2>2
    <3> QED
      BY <3>1, <3>2, <3>3
  <2>5. ~Refused(h) /\ ~BadHost(t)
    <3>1. <<"any">> # <<"bad">> /\ <<"any">>[1] # "net"
      OBVIOUS
    <3> QED
      BY <2>1, <2>2, <3>1 DEF Refused, BadHost
  <2> QED
    BY <2>3, <2>4, <2>5
<1>2. CASE t # EmptyText
  <2>1. h = t
    BY <1>2
  <2>2. HostWords(t)
    BY <1>2 DEF HostLine, HostWords
  <2>3. HostOf(t) = HostMeant(t)
    BY <1>2 DEF HostOf, HostAs, HostMeant
  <2>4. Refused(t) <=> BadHost(t)
    BY DEF Refused, BadHost
  <2> QED
    BY <2>1, <2>2, <2>3, <2>4
<1> QED
  BY <1>1, <1>2

LEMMA FourDigitsOk == \A n \in Nat : n <= 9999 => PortOk(n)
BY SMT DEF PortOk

LEMMA TenthOf == \A n \in Nat : n <= 99999 => n \div 10 \in Nat /\ n \div 10 <= 9999
BY SMT

PortField(t) == PortWord(IF t = <<"any">> THEN EmptyText ELSE FourDigits(t))

LEMMA PortTyped ==
    ASSUME NEW t, PortLine(t)
    PROVE  /\ PortWords(PortField(t))
           /\ PortField(t) = << <<"bad">> >> <=> t = <<"bad">>
           /\ PortField(t) = <<>> <=> t \in {EmptyText, <<"any">>}
           /\ PortsOf(PortField(t)) =
                 [kind |-> "list", ports |-> IF t # EmptyText /\ t[1] = "port" THEN <<FourDigits(t)[2]>> ELSE <<>>]
<1> DEFINE w == PortField(t)
<1>1. CASE t = EmptyText \/ t = <<"any">>
  <2>1. w = <<>>
    BY SMT, <1>1 DEF PortField, PortWord, FourDigits
  <2>2. t # <<"bad">> /\ ~(t # EmptyText /\ t[1] = "port")
    BY SMT, <1>1 DEF EmptyText
  <2> QED
    BY SMT, <1>1, <2>1, <2>2 DEF PortWords, PortsOf
<1>2. CASE t = <<"bad">>
  <2>1. t # EmptyText /\ t # <<"any">> /\ t[1] # "port"
    BY SMT, <1>2 DEF EmptyText
  <2>2. w = << <<"bad">> >>
    BY SMT, <2>1 DEF PortField, PortWord, FourDigits
  <2>3. << <<"bad">> >> # <<>>
    BY SMT
  <2> QED
    BY SMT, <1>2, <2>1, <2>2, <2>3 DEF PortWords, PortsOf
<1>3. CASE t = <<"port", t[2]>> /\ t[2] \in Nat /\ t[2] <= 99999
  <2> DEFINE n == t[2]
             f == FourDigits(t)
             x == <<"ports", <<f[2]>>, <<>> >>
  <2>1. t # EmptyText /\ t # <<"any">> /\ t # <<"bad">> /\ t[1] = "port" /\ n \in Nat /\ n <= 99999
    BY SMT, <1>3 DEF EmptyText
  <2> HIDE DEF n
  <2>2. f = IF n > 9999 THEN <<"port", n \div 10>> ELSE t
    BY SMT, <2>1 DEF FourDigits, n
  <2>3. f[1] = "port" /\ f[2] \in Nat /\ f[2] <= 9999 /\ f # EmptyText
    <3> HIDE DEF f
    <3>1. CASE n > 9999
      <4>1. n \div 10 \in Nat /\ n \div 10 <= 9999
        BY SMT, <2>1, <3>1, TenthOf
      <4>2. f = <<"port", n \div 10>>
        BY SMT, <2>2, <3>1
      <4> QED
        BY SMT, <4>1, <4>2 DEF EmptyText
    <3>2. CASE ~(n > 9999)
      <4>1. f = t
        BY SMT, <2>2, <3>2
      <4>2. n \in Nat /\ n <= 9999
        BY SMT, <2>1, <3>2
      <4> QED
        BY SMT, <2>1, <4>1, <4>2 DEF n
    <3> QED
      BY SMT, <3>1, <3>2
  <2> HIDE DEF f
  <2>4. w = <<x>>
    BY SMT, <2>1, <2>3 DEF PortField, PortWord, f
  <2> HIDE DEF w
  <2>5. w # << <<"bad">> >> /\ w # <<>> /\ w[1][2] = <<f[2]>>
    BY SMT, <2>4
  <2>6. PortWords(w)
    <3>1. f[2] \in Int /\ PortOk(f[2])
      BY SMT, <2>3, FourDigitsOk
    <3> QED
      BY SMT, <2>4, <3>1 DEF PortWords
  <2>7. PortsOf(w) = [kind |-> "list", ports |-> <<f[2]>>]
    BY SMT, <2>5 DEF PortsOf
  <2> QED
    BY SMT, <2>1, <2>5, <2>6, <2>7 DEF f, w
<1> QED
  BY SMT, <1>1, <1>2, <1>3 DEF PortLine

LEMMA JoinedNothing ==
    ASSUME NEW s, IsTuple(s)
    PROVE  s \o <<>> = s
<1>1. PICK n \in Nat : DOMAIN s = 1..n /\ s = [i \in 1..n |-> s[i]]
  BY DEF IsTuple
<1>2. s \in Seq({s[i] : i \in 1..n})
  BY <1>1
<1> QED
  BY <1>2, ConcatEmptySeq

\* The parts of a filter screen's command.
VerbOf(r) == CASE r.action = "ALLOW" -> "allow"
               [] r.action = "DENY" -> "deny"
               [] r.action = "RESET" -> "reset"
ProtocolOf(r) == [TCP |-> "tcp", UDP |-> "udp", ICMP |-> "icmp", IP |-> "ip"][r.proto]
OptionOf(r) == IF r.proto = "TCP" THEN TcpOption(r)
               ELSE IF r.proto = "IP" THEN IpOption(r)
               ELSE IF r.proto = "ICMP" THEN IcmpOption(r) ELSE <<>>
PortsTyped(r, t) == IF r.proto \in {"TCP", "UDP"} THEN PortField(t) ELSE <<>>
HostTyped(t) == IF t = EmptyText THEN << <<"any">> >> ELSE t

LEMMA OptionShape ==
    ASSUME NEW r
    PROVE  IsTuple(Direction(r)) /\ IsTuple(OptionOf(r))
<1>1. IsTuple(Direction(r))
  <2>1. Direction(r) \in {Words("in"), Words("out"), <<>>}
    BY DEF Direction
  <2> QED
    BY <2>1, ShortTuples DEF Words
<1>2. IsTuple(OptionOf(r))
  <2>1. \/ OptionOf(r) = <<>> \/ OptionOf(r) = Words("setup")
        \/ OptionOf(r) = Words("established") \/ OptionOf(r) = Words("frag")
        \/ \E a, b : OptionOf(r) = <<a, b>>
    <3>1. TcpOption(r) \in {Words("setup"), Words("established"), Words("frag"), <<>>}
      BY DEF TcpOption
    <3>2. IpOption(r) = <<>> \/ \E a, b : IpOption(r) = <<a, b>>
      BY DEF IpOption
    <3>3. IcmpOption(r) = <<>> \/ \E a, b : IcmpOption(r) = <<a, b>>
      BY DEF IcmpOption
    <3> QED
      BY <3>1, <3>2, <3>3 DEF OptionOf
  <2> QED
    BY <2>1, ShortTuples DEF Words
<1> QED
  BY <1>1, <1>2

Shortened(v, pr, src, sp, dst, dp, d, o) ==
    /\ Line(v, pr, src, sp, dst, dp, d, o, <<>>) =
           v \o pr \o (Words("from") \o src \o sp \o Words("to") \o dst \o dp) \o d \o o
    /\ Line(v, pr, src, sp, dst, dp, d, <<>>, <<>>) =
           v \o pr \o (Words("from") \o src \o sp \o Words("to") \o dst \o dp) \o d
    /\ Words("from") \o src \o <<>> \o Words("to") \o dst \o <<>> =
           Words("from") \o src \o Words("to") \o dst

LineParts(v, pr, src, sp, dst, dp, d, o) ==
    /\ IsTuple(v) /\ IsTuple(pr) /\ IsTuple(src) /\ IsTuple(sp)
    /\ IsTuple(dst) /\ IsTuple(dp) /\ IsTuple(d) /\ IsTuple(o)

\* Parts that are not there do not show.
LEMMA LineWithout ==
    ASSUME NEW v, NEW pr, NEW src, NEW sp, NEW dst, NEW dp, NEW d, NEW o,
           LineParts(v, pr, src, sp, dst, dp, d, o)
    PROVE  Shortened(v, pr, src, sp, dst, dp, d, o)
<1> DEFINE h2 == Words("from") \o src \o sp
           h == h2 \o Words("to") \o dst \o dp
           w == v \o pr \o h
           h1 == Words("from") \o src
           h3 == h1 \o Words("to") \o dst
<1>0. /\ IsTuple(v) /\ IsTuple(pr) /\ IsTuple(src) /\ IsTuple(sp)
      /\ IsTuple(dst) /\ IsTuple(dp) /\ IsTuple(d) /\ IsTuple(o)
  BY DEF LineParts
<1>1. IsTuple(Words("from")) /\ IsTuple(Words("to"))
  BY ShortTuples DEF Words
<1>2. IsTuple(h1) /\ IsTuple(h2)
  BY <1>0, <1>1, Joined
<1>3. IsTuple(h) /\ IsTuple(h3)
  <2> HIDE DEF h1, h2
  <2> QED BY <1>0, <1>1, <1>2, Joined
<1>4. IsTuple(w)
  <2> HIDE DEF h
  <2> QED BY <1>0, <1>3, Joined
<1>5. IsTuple(w \o d) /\ IsTuple((w \o d) \o o)
  <2> HIDE DEF w
  <2> QED BY <1>0, <1>4, Joined
<1>6. Line(v, pr, src, sp, dst, dp, d, o, <<>>) = (w \o d) \o o
  <2>1. ((w \o d) \o o) \o <<>> = (w \o d) \o o
    BY <1>5, JoinedNothing
  <2> QED
    BY <2>1 DEF Line
<1>7. Line(v, pr, src, sp, dst, dp, d, <<>>, <<>>) = w \o d
  <2>1. (w \o d) \o <<>> = w \o d
    BY <1>5, JoinedNothing
  <2> QED
    BY <2>1 DEF Line
<1>8. h1 \o <<>> = h1 /\ h3 \o <<>> = h3
  BY <1>2, <1>3, JoinedNothing
<1> QED
  BY <1>6, <1>7, <1>8 DEF Shortened

\* A filter command is such a line, with something left behind it only for IP.
LEMMA CommandIsLine ==
    ASSUME NEW r \in FilterScreen!Rules, NEW t, HostLine(t.src), HostLine(t.dst),
           PortLine(t.src_port), PortLine(t.dst_port), NEW b \in FilterCommand(FilterFields(r, t))
    PROVE  \E g \in Garbage :
              /\ g # <<>> => r.proto = "IP"
              /\ b = Line(Words(VerbOf(r)), Words(ProtocolOf(r)), HostTyped(t.src), PortsTyped(r, t.src_port),
                          HostTyped(t.dst), PortsTyped(r, t.dst_port), Direction(r), OptionOf(r), g)
<1> DEFINE f == FilterFields(r, t)
           v == Words(VerbOf(r))
           d == Direction(r)
           o == OptionOf(r)
           src == HostTyped(t.src)
           dst == HostTyped(t.dst)
           sp == PortField(t.src_port)
           dp == PortField(t.dst_port)
<1>1. /\ f.action = r.action /\ f.proto = r.proto /\ f.ifs = r.ifs /\ f.option = r.option
      /\ f.src = src /\ f.dst = dst /\ PortWord(f.sport) = sp /\ PortWord(f.dport) = dp
  BY DEF FilterFields, HostTyped, PortField
<1> HIDE DEF f
<1>2. Verb(f) = v
  BY <1>1 DEF Verb, VerbOf, FilterScreen!Rules
<1>3. Direction(f) = d
  BY <1>1 DEF Direction
<1>4. TcpOption(f) = TcpOption(r) /\ IpOption(f) = IpOption(r) /\ IcmpOption(f) = IcmpOption(r)
  BY <1>1 DEF TcpOption, IpOption, IcmpOption
<1>5. /\ IsTuple(v) /\ IsTuple(src) /\ IsTuple(dst) /\ IsTuple(sp) /\ IsTuple(dp) /\ IsTuple(d) /\ IsTuple(o)
      /\ IsTuple(Words(ProtocolOf(r))) /\ IsTuple(<<>>)
  <2>1. HostWords(src) /\ HostWords(dst) /\ PortWords(sp) /\ PortWords(dp)
    BY HostField, PortTyped DEF HostTyped
  <2>2. IsTuple(d) /\ IsTuple(o)
    BY OptionShape
  <2>3. IsTuple(v) /\ IsTuple(Words(ProtocolOf(r))) /\ IsTuple(<<>>)
    BY ShortTuples DEF Words
  <2> QED
    BY <2>1, <2>2, <2>3, HostShape, PortShape
<1>6. <<>> \in Garbage
  BY DEF Garbage
<1> HIDE DEF v, d, src, dst, sp, dp
<1>7. CASE r.proto = "TCP"
  <2>1. b = v \o Words("tcp") \o (Words("from") \o src \o sp \o Words("to") \o dst \o dp) \o d \o TcpOption(r)
    BY <1>1, <1>2, <1>3, <1>4, <1>7 DEF FilterCommand, HostsAndPorts, f
  <2>2. ProtocolOf(r) = "tcp" /\ o = TcpOption(r) /\ PortsTyped(r, t.src_port) = sp
        /\ PortsTyped(r, t.dst_port) = dp
    BY <1>7 DEF ProtocolOf, OptionOf, PortsTyped, sp, dp
  <2> HIDE DEF o
  <2>3. LineParts(v, Words("tcp"), src, sp, dst, dp, d, o)
    BY <1>5, <2>2 DEF LineParts
  <2>4. Line(v, Words("tcp"), src, sp, dst, dp, d, o, <<>>) =
            v \o Words("tcp") \o (Words("from") \o src \o sp \o Words("to") \o dst \o dp) \o d \o o
    <3>1. Shortened(v, Words("tcp"), src, sp, dst, dp, d, o)
      BY <2>3, LineWithout
    <3> QED
      BY <3>1 DEF Shortened
  <2>5. b = Line(v, Words("tcp"), src, sp, dst, dp, d, o, <<>>)
    BY <2>1, <2>2, <2>4, Zenon
  <2> QED
    BY <1>6, <2>2, <2>5 DEF v, d, src, dst, o
<1>8. CASE r.proto = "UDP"
  <2>1. b = v \o Words("udp") \o (Words("from") \o src \o sp \o Words("to") \o dst \o dp) \o d
    BY <1>1, <1>2, <1>3, <1>4, <1>8 DEF FilterCommand, HostsAndPorts, f
  <2>2. ProtocolOf(r) = "udp" /\ o = <<>> /\ PortsTyped(r, t.src_port) = sp
        /\ PortsTyped(r, t.dst_port) = dp
    BY <1>8 DEF ProtocolOf, OptionOf, PortsTyped, sp, dp
  <2> HIDE DEF o
  <2>3. LineParts(v, Words("udp"), src, sp, dst, dp, d, o)
    BY <1>5, <2>2 DEF LineParts
  <2>4. Line(v, Words("udp"), src, sp, dst, dp, d, <<>>, <<>>) =
            v \o Words("udp") \o (Words("from") \o src \o sp \o Words("to") \o dst \o dp) \o d
    <3>1. Shortened(v, Words("udp"), src, sp, dst, dp, d, o)
      BY <2>3, LineWithout
    <3> QED
      BY <3>1 DEF Shortened
  <2>5. b = Line(v, Words("udp"), src, sp, dst, dp, d, o, <<>>)
    BY <2>1, <2>2, <2>4, Zenon
  <2> QED
    BY <1>6, <2>2, <2>5 DEF v, d, src, dst, o
<1>9. CASE r.proto = "ICMP"
  <2>1. b = v \o Words("icmp") \o (Words("from") \o src \o Words("to") \o dst) \o d \o IcmpOption(r)
    BY <1>1, <1>2, <1>3, <1>4, <1>9 DEF FilterCommand, Hosts, f
  <2>2. ProtocolOf(r) = "icmp" /\ o = IcmpOption(r) /\ PortsTyped(r, t.src_port) = <<>>
        /\ PortsTyped(r, t.dst_port) = <<>>
    BY <1>9 DEF ProtocolOf, OptionOf, PortsTyped
  <2> HIDE DEF o
  <2>3. Words("from") \o src \o <<>> \o Words("to") \o dst \o <<>> = Words("from") \o src \o Words("to") \o dst
    <3>1. LineParts(v, v, src, v, dst, v, v, v)
      BY <1>5 DEF LineParts
    <3>2. Shortened(v, v, src, v, dst, v, v, v)
      BY <3>1, LineWithout
    <3> QED
      BY <3>2 DEF Shortened
  <2>4. IsTuple(Words("icmp"))
    BY <1>5, <2>2
  <2>5. ASSUME NEW e, IsTuple(e)
        PROVE  Line(v, Words("icmp"), src, e, dst, e, d, o, <<>>) =
                   v \o Words("icmp") \o (Words("from") \o src \o e \o Words("to") \o dst \o e) \o d \o o
    <3>1. LineParts(v, Words("icmp"), src, e, dst, e, d, o)
      BY <1>5, <2>4, <2>5 DEF LineParts
    <3>2. Shortened(v, Words("icmp"), src, e, dst, e, d, o)
      BY <3>1, LineWithout
    <3> QED
      BY <3>2 DEF Shortened
  <2>6. b = Line(v, Words("icmp"), src, <<>>, dst, <<>>, d, o, <<>>)
    BY <1>5, <2>1, <2>2, <2>3, <2>5, Zenon
  <2> QED
    BY <1>6, <2>2, <2>6 DEF v, d, src, dst, o
<1>10. CASE r.proto = "IP"
  <2>1. PICK g \in Garbage : b = v \o Words("ip") \o (Words("from") \o src \o Words("to") \o dst) \o d \o IpOption(r) \o g
    BY <1>1, <1>2, <1>3, <1>4, <1>10 DEF FilterCommand, Hosts, f
  <2>2. ProtocolOf(r) = "ip" /\ o = IpOption(r) /\ PortsTyped(r, t.src_port) = <<>>
        /\ PortsTyped(r, t.dst_port) = <<>>
    BY <1>10 DEF ProtocolOf, OptionOf, PortsTyped
  <2> HIDE DEF o
  <2>3. Words("from") \o src \o <<>> \o Words("to") \o dst \o <<>> = Words("from") \o src \o Words("to") \o dst
    <3>1. LineParts(v, v, src, v, dst, v, v, v)
      BY <1>5 DEF LineParts
    <3>2. Shortened(v, v, src, v, dst, v, v, v)
      BY <3>1, LineWithout
    <3> QED
      BY <3>2 DEF Shortened
  <2>4. b = Line(v, Words("ip"), src, <<>>, dst, <<>>, d, o, g)
    BY <2>1, <2>2, <2>3 DEF Line
  <2> QED
    BY <1>10, <2>2, <2>4 DEF v, d, src, dst, o
<1> QED
  BY <1>7, <1>8, <1>9, <1>10 DEF FilterScreen!Rules

\* What a filter screen's items stand for in the rule.
DirectionFlags(r) == IF r.ifs = "INCOMING" THEN {"in"} ELSE IF r.ifs = "OUTGOING" THEN {"out"} ELSE {}
OptionFlags(r) == IF r.proto = "TCP" /\ r.option = "ESTABLISHED" THEN {"tcpest"}
                  ELSE IF r.proto = "TCP" /\ r.option = "FRAG" THEN {"frag"} ELSE {}
OptionSet(r) == IF r.proto = "TCP" /\ r.option = "SETUP" THEN {<<"tcpflags", "syn">>}
                ELSE IF r.proto = "IP" /\ r.option = "SSRR" THEN {<<"ipoptions", "ssrr">>}
                ELSE IF r.proto = "IP" /\ r.option = "LSRR" THEN {<<"ipoptions", "lsrr">>}
                ELSE IF r.proto = "IP" /\ r.option = "TS" THEN {<<"ipoptions", "ts">>} ELSE {}
OptionClear(r) == IF r.proto = "TCP" /\ r.option = "SETUP" THEN {<<"tcpflags", "ack">>} ELSE {}
OptionTypes(r) == IF r.proto = "ICMP" /\ r.option = "ECHO_REQUEST" THEN {5}
                  ELSE IF r.proto = "ICMP" /\ r.option = "DEST_UNREACH" THEN {3}
                  ELSE IF r.proto = "ICMP" /\ r.option = "ECHO_REPLY" THEN {0} ELSE {}
RuleFlags(r) == (IF DirectionFlags(r) = {} THEN {"in", "out"} ELSE DirectionFlags(r)) \cup OptionFlags(r)

LEMMA ItemsMean ==
    ASSUME NEW r \in FilterScreen!Rules
    PROVE  /\ VerbOf(r) \in VerbWord /\ ProtocolOf(r) \in ProtocolWord
           /\ (VerbOf(r) = "reset" <=> r.action = "RESET") /\ (ProtocolOf(r) = "tcp" <=> r.proto = "TCP")
           /\ ProtocolOf(r) \in {"tcp", "udp"} <=> r.proto \in {"TCP", "UDP"}
           /\ DirectionMeans(Direction(r), DirectionFlags(r))
           /\ OptionMeans(ProtocolOf(r), OptionOf(r), OptionFlags(r), OptionSet(r), OptionClear(r), OptionTypes(r))
<1> USE DEF FilterScreen!Rules
<1>1. VerbOf(r) \in VerbWord /\ (VerbOf(r) = "reset" <=> r.action = "RESET")
  BY DEF VerbOf, VerbWord
<1>2. /\ ProtocolOf(r) \in ProtocolWord /\ (ProtocolOf(r) = "tcp" <=> r.proto = "TCP")
      /\ ProtocolOf(r) \in {"tcp", "udp"} <=> r.proto \in {"TCP", "UDP"}
      /\ (r.proto = "IP" => ProtocolOf(r) = "ip") /\ (r.proto = "ICMP" => ProtocolOf(r) = "icmp")
  BY DEF ProtocolOf, ProtocolWord
<1>3. DirectionMeans(Direction(r), DirectionFlags(r))
  BY DEF Direction, DirectionFlags, DirectionMeans
<1>4. OptionMeans(ProtocolOf(r), OptionOf(r), OptionFlags(r), OptionSet(r), OptionClear(r), OptionTypes(r))
  <2> DEFINE of == OptionFlags(r)
             os == OptionSet(r)
             oc == OptionClear(r)
             ot == OptionTypes(r)
  <2>1. CASE r.proto = "TCP"
    <3>1. ot = {} /\ OptionOf(r) = TcpOption(r)
      BY <2>1 DEF OptionTypes, OptionOf
    <3>2. CASE r.option = "SETUP"
      <4>1. of = {} /\ os = {<<"tcpflags", "syn">>} /\ oc = {<<"tcpflags", "ack">>}
        BY <2>1, <3>2 DEF OptionFlags, OptionSet, OptionClear
      <4>2. TcpOption(r) = Words("setup")
        BY <3>2 DEF TcpOption
      <4> QED
        BY <1>2, <2>1, <3>1, <4>1, <4>2 DEF OptionMeans
    <3>3. CASE r.option = "ESTABLISHED"
      <4>1. of = {"tcpest"} /\ os = {} /\ oc = {}
        BY <2>1, <3>3 DEF OptionFlags, OptionSet, OptionClear
      <4>2. TcpOption(r) = Words("established")
        BY <3>3 DEF TcpOption
      <4> QED
        BY <1>2, <2>1, <3>1, <4>1, <4>2 DEF OptionMeans
    <3>4. CASE r.option = "FRAG"
      <4>1. of = {"frag"} /\ os = {} /\ oc = {}
        BY <2>1, <3>4 DEF OptionFlags, OptionSet, OptionClear
      <4>2. TcpOption(r) = Words("frag")
        BY <3>4 DEF TcpOption
      <4> QED
        BY <1>2, <2>1, <3>1, <4>1, <4>2 DEF OptionMeans
    <3>5. CASE r.option \notin {"SETUP", "ESTABLISHED", "FRAG"}
      <4>1. of = {} /\ os = {} /\ oc = {} /\ TcpOption(r) = <<>>
        BY <2>1, <3>5 DEF OptionFlags, OptionSet, OptionClear, TcpOption
      <4> QED
        BY <3>1, <4>1 DEF OptionMeans
    <3> QED
      BY <3>2, <3>3, <3>4, <3>5
  <2>2. CASE r.proto = "IP"
    <3>1. of = {} /\ oc = {} /\ ot = {} /\ OptionOf(r) = IpOption(r)
      BY <2>2 DEF OptionFlags, OptionClear, OptionTypes, OptionOf
    <3>2. ASSUME NEW x \in {"ssrr", "lsrr", "ts"}, IpOption(r) = << <<"ipoptions">>, <<"opts", {<<"+", x>>}>> >>,
                 os = {<<"ipoptions", x>>}
          PROVE  OptionMeans(ProtocolOf(r), OptionOf(r), of, os, oc, ot)
      BY <1>2, <2>2, <3>1, <3>2 DEF OptionMeans
    <3>3. CASE r.option = "SSRR"
      BY <2>2, <3>2, <3>3 DEF IpOption, OptionSet
    <3>4. CASE r.option = "LSRR"
      BY <2>2, <3>2, <3>4 DEF IpOption, OptionSet
    <3>5. CASE r.option = "TS"
      BY <2>2, <3>2, <3>5 DEF IpOption, OptionSet
    <3>6. CASE r.option \notin {"SSRR", "LSRR", "TS"}
      <4>1. os = {} /\ IpOption(r) = <<>>
        BY <2>2, <3>6 DEF OptionSet, IpOption
      <4> QED
        BY <3>1, <4>1 DEF OptionMeans
    <3> QED
      BY <3>3, <3>4, <3>5, <3>6
  <2>3. CASE r.proto = "ICMP"
    <3>1. of = {} /\ oc = {} /\ os = {} /\ OptionOf(r) = IcmpOption(r)
      BY <2>3 DEF OptionFlags, OptionClear, OptionSet, OptionOf
    <3>2. ASSUME NEW n \in {0, 3, 5}, IcmpOption(r) = << <<"icmptypes">>, <<"types", {n}>> >>, ot = {n}
          PROVE  OptionMeans(ProtocolOf(r), OptionOf(r), of, os, oc, ot)
      BY <1>2, <2>3, <3>1, <3>2 DEF OptionMeans
    <3>3. CASE r.option = "ECHO_REQUEST"
      BY <2>3, <3>2, <3>3 DEF IcmpOption, OptionTypes
    <3>4. CASE r.option = "DEST_UNREACH"
      BY <2>3, <3>2, <3>4 DEF IcmpOption, OptionTypes
    <3>5. CASE r.option = "ECHO_REPLY"
      BY <2>3, <3>2, <3>5 DEF IcmpOption, OptionTypes
    <3>6. CASE r.option \notin {"ECHO_REQUEST", "DEST_UNREACH", "ECHO_REPLY"}
      <4>1. ot = {} /\ IcmpOption(r) = <<>>
        BY <2>3, <3>6 DEF OptionTypes, IcmpOption
      <4> QED
        BY <3>1, <4>1 DEF OptionMeans
    <3> QED
      BY <3>3, <3>4, <3>5, <3>6
  <2>4. CASE r.proto = "UDP"
    BY <2>4 DEF OptionFlags, OptionSet, OptionClear, OptionTypes, OptionOf, OptionMeans
  <2> QED
    BY <2>1, <2>2, <2>3, <2>4
<1> QED
  BY <1>1, <1>2, <1>3, <1>4

LEMMA MeantIsMade ==
    ASSUME NEW r \in FilterScreen!Rules, NEW t, PortLine(t.src_port), PortLine(t.dst_port), ~Altered(r, t)
    PROVE  Meant(r, t) = Made(VerbOf(r), ProtocolOf(r),
                              HostMeant(t.src), PortsOf(PortsTyped(r, t.src_port)),
                              HostMeant(t.dst), PortsOf(PortsTyped(r, t.dst_port)),
                              RuleFlags(r), OptionSet(r), OptionClear(r), OptionTypes(r))
<1> DEFINE port(x) == IF x = EmptyText THEN NoPorts ELSE PortsMeant(r, x)
           ipopts == [SSRR |-> "ssrr", LSRR |-> "lsrr", TS |-> "ts"]
           types == [ECHO_REQUEST |-> 8, DEST_UNREACH |-> 3, ECHO_REPLY |-> 0]
           cmd == CASE r.action = "ALLOW" -> "allow"
                    [] r.action = "DENY" -> "deny"
                    [] r.action = "RESET" -> "reset"
           proto == [TCP |-> "tcp", UDP |-> "udp", ICMP |-> "icmp", IP |-> "ip"][r.proto]
           flags == (CASE r.ifs = "ANY" -> {"in", "out"}
                       [] r.ifs = "INCOMING" -> {"in"}
                       [] r.ifs = "OUTGOING" -> {"out"})
                    \cup (IF r.proto = "TCP" /\ r.option = "ESTABLISHED" THEN {"tcpest"} ELSE {})
                    \cup (IF r.proto = "TCP" /\ r.option = "FRAG" THEN {"frag"} ELSE {})
           set == CASE r.proto = "TCP" /\ r.option = "SETUP" -> {<<"tcpflags", "syn">>}
                    [] r.proto = "IP" /\ r.option \in DOMAIN ipopts -> {<<"ipoptions", ipopts[r.option]>>}
                    [] OTHER -> {}
           clear == IF r.proto = "TCP" /\ r.option = "SETUP" THEN {<<"tcpflags", "ack">>} ELSE {}
           typs == IF r.proto = "ICMP" /\ r.option \in DOMAIN types THEN {types[r.option]} ELSE {}
<1>1. Meant(r, t) = Made(cmd, proto, HostMeant(t.src), port(t.src_port), HostMeant(t.dst), port(t.dst_port),
                         flags, set, clear, typs)
  BY Zenon DEF Meant, Made
<1>2. ASSUME NEW x \in {t.src_port, t.dst_port}
      PROVE  port(x) = PortsOf(PortsTyped(r, x))
  <2>0. PortLine(x)
    OBVIOUS
  <2>1. PortsOf(<<>>) = NoPorts
    BY DEF PortsOf, NoPorts
  <2>2. r.proto \notin {"TCP", "UDP"} => PortsMeant(r, x) = NoPorts
    BY DEF PortsMeant, NoPorts
  <2>3. r.proto \in {"TCP", "UDP"} =>
            PortsMeant(r, x) = [kind |-> "list", ports |-> IF x[1] = "port" THEN <<x[2]>> ELSE <<>>]
    BY DEF PortsMeant
  <2>4. CASE r.proto \notin {"TCP", "UDP"}
    BY <2>1, <2>2, <2>4 DEF PortsTyped
  <2>5. CASE r.proto \in {"TCP", "UDP"}
    <3>1. PortsTyped(r, x) = PortField(x)
      BY <2>5 DEF PortsTyped
    <3>2. PortsOf(PortField(x)) =
             [kind |-> "list", ports |-> IF x # EmptyText /\ x[1] = "port" THEN <<FourDigits(x)[2]>> ELSE <<>>]
      BY <2>0, PortTyped
    <3>3. x # EmptyText /\ x[1] = "port" => FourDigits(x) = x
      BY <2>5 DEF Altered, FourDigits
    <3>4. CASE x = EmptyText
      BY <3>1, <3>2, <3>4 DEF NoPorts
    <3>5. CASE x # EmptyText
      BY <2>3, <2>5, <3>1, <3>2, <3>3, <3>5
    <3> QED
      BY <3>4, <3>5
  <2> QED
    BY <2>4, <2>5
<1>3. cmd = VerbOf(r) /\ proto = ProtocolOf(r)
  BY DEF VerbOf, ProtocolOf
<1>4. flags = RuleFlags(r)
  <2>1. CASE r.ifs = "ANY"
    BY <2>1 DEF RuleFlags, DirectionFlags, OptionFlags
  <2>2. CASE r.ifs = "INCOMING"
    BY <2>2 DEF RuleFlags, DirectionFlags, OptionFlags
  <2>3. CASE r.ifs = "OUTGOING"
    BY <2>3 DEF RuleFlags, DirectionFlags, OptionFlags
  <2> QED
    BY <2>1, <2>2, <2>3 DEF FilterScreen!Rules
<1>5. clear = OptionClear(r)
  BY DEF OptionClear
<1>6. set = OptionSet(r)
  <2>1. DOMAIN ipopts = {"SSRR", "LSRR", "TS"} /\ ipopts["SSRR"] = "ssrr" /\ ipopts["LSRR"] = "lsrr" /\ ipopts["TS"] = "ts"
    OBVIOUS
  <2> HIDE DEF ipopts
  <2>2. CASE r.proto = "TCP"
    BY <2>2 DEF OptionSet
  <2>3. CASE r.proto = "IP"
    BY <2>1, <2>3 DEF OptionSet
  <2>4. CASE r.proto \notin {"TCP", "IP"}
    BY <2>4 DEF OptionSet
  <2> QED
    BY <2>2, <2>3, <2>4
<1>7. typs = OptionTypes(r)
  <2>1. /\ DOMAIN types = {"ECHO_REQUEST", "DEST_UNREACH", "ECHO_REPLY"}
        /\ types["ECHO_REQUEST"] = 8 /\ types["DEST_UNREACH"] = 3 /\ types["ECHO_REPLY"] = 0
    OBVIOUS
  <2> HIDE DEF types
  <2> QED
    BY <2>1 DEF OptionTypes, Altered
<1>8. port(t.src_port) = PortsOf(PortsTyped(r, t.src_port)) /\ port(t.dst_port) = PortsOf(PortsTyped(r, t.dst_port))
  BY <1>2
<1> HIDE DEF cmd, proto, flags, set, clear, typs, port
<1> QED
  BY <1>1, <1>3, <1>4, <1>5, <1>6, <1>7, <1>8

LEMMA UnusableIsUnread ==
    ASSUME NEW r \in FilterScreen!Rules, NEW t, HostLine(t.src), HostLine(t.dst),
           PortLine(t.src_port), PortLine(t.dst_port), ~(r.action = "RESET" /\ r.proto # "TCP")
    PROVE  Unusable(r, t) <=> Unread(HostTyped(t.src), PortsTyped(r, t.src_port),
                                     HostTyped(t.dst), PortsTyped(r, t.dst_port), RuleFlags(r))
<1> DEFINE ports == IF r.proto \in {"TCP", "UDP"} THEN {t.src_port, t.dst_port} ELSE {}
           sp == PortsTyped(r, t.src_port)
           dp == PortsTyped(r, t.dst_port)
<1>1. Unusable(r, t) <=> \/ BadHost(t.src) \/ BadHost(t.dst)
                         \/ <<"bad">> \in ports
                         \/ r.proto = "TCP" /\ r.option = "FRAG" /\ ports \ {EmptyText, <<"any">>} # {}
  BY DEF Unusable, BadHost
<1>2. (Refused(HostTyped(t.src)) <=> BadHost(t.src)) /\ (Refused(HostTyped(t.dst)) <=> BadHost(t.dst))
  BY HostField DEF HostTyped
<1>3. <<"bad">> \in ports <=> sp = << <<"bad">> >> \/ dp = << <<"bad">> >>
  BY PortTyped DEF PortsTyped
<1>4. "frag" \in RuleFlags(r) <=> r.proto = "TCP" /\ r.option = "FRAG"
  BY DEF RuleFlags, DirectionFlags, OptionFlags
<1>5. r.proto = "TCP" => (ports \ {EmptyText, <<"any">>} # {} <=> ~(sp = <<>> /\ dp = <<>>))
  <2>1. r.proto = "TCP" => /\ sp = <<>> <=> t.src_port \in {EmptyText, <<"any">>}
                           /\ dp = <<>> <=> t.dst_port \in {EmptyText, <<"any">>}
    BY PortTyped DEF PortsTyped
  <2>2. r.proto = "TCP" => ports = {t.src_port, t.dst_port}
    OBVIOUS
  <2> HIDE DEF ports, sp, dp
  <2> QED
    BY <2>1, <2>2
<1> HIDE DEF ports, sp, dp
<1>6. Unread(HostTyped(t.src), sp, HostTyped(t.dst), dp, RuleFlags(r)) <=>
          \/ Refused(HostTyped(t.src)) \/ Refused(HostTyped(t.dst))
          \/ sp = << <<"bad">> >> \/ dp = << <<"bad">> >>
          \/ "frag" \in RuleFlags(r) /\ ~(sp = <<>> /\ dp = <<>>)
  BY DEF Unread
<1> QED
  BY <1>1, <1>2, <1>3, <1>4, <1>5, <1>6, Zenon DEF sp, dp

\* What ipfw makes of the command of a filter screen.
LEMMA CommandMeans ==
    ASSUME NEW r \in FilterScreen!Rules, NEW t, HostLine(t.src), HostLine(t.dst),
           PortLine(t.src_port), PortLine(t.dst_port), ~(r.action = "RESET" /\ r.proto # "TCP"),
           NEW b \in FilterCommand(FilterFields(r, t))
    PROVE  IF Unusable(r, t) THEN ~Parse(b).ok
           ELSE \/ Parse(b).ok /\ (Parse(b).r = Meant(r, t) \/ Altered(r, t))
                \/ r.proto = "IP" /\ ~Parse(b).ok
<1> DEFINE src == HostTyped(t.src)
           dst == HostTyped(t.dst)
           sp == PortsTyped(r, t.src_port)
           dp == PortsTyped(r, t.dst_port)
           v == VerbOf(r)
           pr == ProtocolOf(r)
           d == Direction(r)
           o == OptionOf(r)
           df == DirectionFlags(r)
           of == OptionFlags(r)
           os == OptionSet(r)
           oc == OptionClear(r)
           ot == OptionTypes(r)
<1>1. PICK g \in Garbage : /\ g # <<>> => r.proto = "IP"
                           /\ b = Line(Words(v), Words(pr), src, sp, dst, dp, d, o, g)
  BY CommandIsLine
<1>2. /\ v \in VerbWord /\ pr \in ProtocolWord /\ ~(v = "reset" /\ pr # "tcp")
      /\ DirectionMeans(d, df) /\ OptionMeans(pr, o, of, os, oc, ot)
  BY ItemsMean
<1>3. /\ HostWords(src) /\ HostWords(dst) /\ PortWords(sp) /\ PortWords(dp)
      /\ pr \in {"tcp", "udp"} \/ (sp = <<>> /\ dp = <<>>)
  <2>1. HostWords(src) /\ HostWords(dst)
    BY HostField DEF HostTyped
  <2>2. PortWords(<<>>)
    BY DEF PortWords
  <2>3. PortWords(sp) /\ PortWords(dp)
    BY <2>2, PortTyped DEF PortsTyped
  <2>4. r.proto \notin {"TCP", "UDP"} => sp = <<>> /\ dp = <<>>
    BY DEF PortsTyped
  <2> QED
    BY <2>1, <2>3, <2>4, ItemsMean
<1>4. IsTuple(d) /\ IsTuple(o) /\ IsTuple(g)
  BY OptionShape, ShortTuples DEF Garbage
<1>5. Unusable(r, t) <=> Unread(src, sp, dst, dp, RuleFlags(r))
  BY UnusableIsUnread
<1>6. Unread(src, sp, dst, dp, of) <=> Unread(src, sp, dst, dp, RuleFlags(r))
  BY DEF Unread, RuleFlags, DirectionFlags
<1>7. ~Altered(r, t) =>
          Meant(r, t) = Made(v, pr, HostMeant(t.src), PortsOf(sp), HostMeant(t.dst), PortsOf(dp),
                         (IF df = {} THEN {"in", "out"} ELSE df) \cup of, os, oc, ot)
  BY MeantIsMade DEF RuleFlags
<1>8. HostOf(src) = HostMeant(t.src) /\ HostOf(dst) = HostMeant(t.dst)
  BY HostField DEF HostTyped
<1> HIDE DEF src, dst, sp, dp, v, pr, d, o, df, of, os, oc, ot
<1>9. IF Unread(src, sp, dst, dp, of) \/ g # <<>> THEN ~Parse(b).ok
      ELSE /\ Parse(b).ok
           /\ Parse(b).r = Made(v, pr, HostOf(src), PortsOf(sp), HostOf(dst), PortsOf(dp),
                                (IF df = {} THEN {"in", "out"} ELSE df) \cup of, os, oc, ot)
  <2>1. Taken(b, v, pr, src, sp, dst, dp, df, of, os, oc, ot, g)
    BY <1>1, <1>2, <1>3, <1>4, CommandRead
  <2> QED
    BY <2>1 DEF Taken
<1> QED
  BY <1>1, <1>5, <1>6, <1>7, <1>8, <1>9

-----------------------------------------------------------------------------
(* The filter screen adds the rule it shows *)

\* What is in the fields of the filter screen was typed there.
TypedInv ==
    screen = "filter" =>
        /\ text = [src |-> text.src, src_port |-> text.src_port, dst |-> text.dst, dst_port |-> text.dst_port]
        /\ HostLine(text.src) /\ HostLine(text.dst)
        /\ PortLine(text.src_port) /\ PortLine(text.dst_port)

LEMMA OpenIsEmpty == FilterScreen!Open =>
    /\ text' = [src |-> text'.src, src_port |-> text'.src_port, dst |-> text'.dst, dst_port |-> text'.dst_port]
    /\ HostLine(text'.src) /\ HostLine(text'.dst)
    /\ PortLine(text'.src_port) /\ PortLine(text'.dst_port)
BY DEF FilterScreen!Open, FilterScreen!Blanks, HostLine, PortLine, EmptyText

LEMMA KeyTypes ==
    ASSUME TypedInv, screen = "filter", screen' = "filter", FilterScreen!Key
    PROVE  TypedInv'
<1>1. ASSUME NEW field \in {"src", "dst"}, NEW t \in HostText, NEW up \in BOOLEAN, FilterScreen!Edit(field, t, up)
      PROVE  TypedInv'
  <2>1. text' = [text EXCEPT ![field] = t]
    BY <1>1 DEF FilterScreen!Edit
  <2>2. HostLine(t)
    BY <1>1, TypedAssumption
  <2> QED
    BY <2>1, <2>2 DEF TypedInv
<1>2. ASSUME NEW field \in {"src_port", "dst_port"}, NEW t \in PortText, NEW up \in BOOLEAN,
             FilterScreen!Edit(field, t, up)
      PROVE  TypedInv'
  <2>1. text' = [text EXCEPT ![field] = t]
    BY <1>2 DEF FilterScreen!Edit
  <2>2. PortLine(t)
    BY <1>2, TypedAssumption
  <2> QED
    BY <2>1, <2>2 DEF TypedInv
<1>3. ASSUME UNCHANGED text
      PROVE  TypedInv'
  BY <1>3 DEF TypedInv
<1> QED
  BY <1>1, <1>2, <1>3 DEF FilterScreen!Key, FilterScreen!Down, FilterScreen!Left, FilterScreen!Right,
     FilterScreen!Up, FilterScreen!Tab, FilterScreen!Space

LEMMA TypedStep == TypedInv /\ [ConsoleNext]_consoleVars => TypedInv'
<1> SUFFICES ASSUME TypedInv, [ConsoleNext]_consoleVars PROVE TypedInv'
  OBVIOUS
<1>1. CASE ShowFilter
  BY <1>1, OpenIsEmpty DEF ShowFilter, TypedInv
<1>2. CASE FilterKey
  BY <1>2, KeyTypes DEF FilterKey
<1>3. CASE ShowForward \/ ForwardKey \/ FilterOK \/ ForwardOK \/ Cancel \/ Clear
  <2>1. screen' # "filter"
    BY <1>3 DEF ShowForward, ForwardKey, FilterOK, ForwardOK, Cancel, Clear, Close
  <2> QED
    BY <2>1 DEF TypedInv
<1>4. CASE UNCHANGED consoleVars
  BY <1>4 DEF consoleVars, TypedInv
<1> QED
  BY <1>1, <1>2, <1>3, <1>4 DEF ConsoleNext

LEMMA FilterAdds ==
    ASSUME RefInv, TypedInv, FilterOK
    PROVE  IF Unusable(rule, text) THEN chain' = chain
           ELSE \/ rule.proto = "IP" /\ chain' = chain
                \/ /\ Len(chain') = Len(chain) + 1
                   /\ Last(chain') = Meant(rule, text) \/ Altered(rule, text)
<1>1. rule \in FilterScreen!Rules /\ IsTuple(chain)
  BY DEF FilterOK, RefInv, ScreenInv, FilterInv
<1>2. CASE rule.action = "RESET" /\ rule.proto # "TCP"
  BY <1>2 DEF FilterOK, Unusable
<1>3. CASE ~(rule.action = "RESET" /\ rule.proto # "TCP")
  <2>1. PICK b \in FilterCommand(FilterFields(rule, text)) :
           chain' = IF Parse(b).ok THEN Append(chain, Parse(b).r) ELSE chain
    BY <1>3 DEF FilterOK, Insert
  <2>2. IF Unusable(rule, text) THEN ~Parse(b).ok
        ELSE \/ Parse(b).ok /\ (Parse(b).r = Meant(rule, text) \/ Altered(rule, text))
             \/ rule.proto = "IP" /\ ~Parse(b).ok
    BY <1>1, <1>3, CommandMeans DEF TypedInv, FilterOK
  <2>3. ASSUME NEW e
        PROVE  Len(Append(chain, e)) = Len(chain) + 1 /\ Last(Append(chain, e)) = e
    BY <1>1, Appended DEF Last
  <2> QED
    BY <2>1, <2>2, <2>3
<1> QED
  BY <1>2, <1>3

\* Whatever was marked and typed, of what this module lets be typed: OK in the filter screen puts
\* the rule shown into force, with ICMP type 8 for echo requests and the whole of each port, but
\* for the two cases of Altered; or none where ipfw can make nothing of a field, where the screen
\* refuses to reset, or behind an IP rule (filter.c:533-565, rules.c:11-249, ipfw.c:1559-2062).
THEOREM FilterAddsWhatIsShown == ConsoleSpec => AddedIsShown
<1>1. ConsoleInit => RefInv /\ TypedInv
  BY RefInit DEF ConsoleInit, TypedInv
<1>2. RefInv /\ TypedInv /\ [ConsoleNext]_consoleVars => (RefInv /\ TypedInv)'
  BY RefStep, TypedStep
<1>3. RefInv /\ TypedInv /\ [ConsoleNext]_consoleVars =>
        [FilterOK =>
            IF Unusable(rule, text) THEN chain' = chain
            ELSE \/ rule.proto = "IP" /\ chain' = chain
                 \/ /\ Len(chain') = Len(chain) + 1
                    /\ Last(chain') = Meant(rule, text) \/ Altered(rule, text)]_consoleVars
  BY FilterAdds
<1> QED
  BY <1>1, <1>2, <1>3, PTL DEF ConsoleSpec, AddedIsShown

=============================================================================
