----------------------------- MODULE FilterForm -----------------------------
(***************************************************************************)
(* The screen "Insert Protocol Filter" (config/filter.c and the drawing    *)
(* functions of config/misc.c).  ipfwconfig/ has a copy of both, so what   *)
(* the boxes show is a parameter that each program gives.                  *)
(*                                                                         *)
(* Four boxes of radio items, four input fields and two buttons.  The      *)
(* program keeps the focus in a number p and draws every box by hand: an   *)
(* item is highlighted because some call said so, and marked with a star   *)
(* because the rule had that value when the box was last drawn.            *)
(*                                                                         *)
(*   1-3    action           8, 9    source, its port        12  OK        *)
(*   4-7    protocol         10, 11  destination, its port   13  Cancel    *)
(*   21-23  direction        24-27   options                               *)
(*                                                                         *)
(* At 8 to 11 the program is inside line_edit().                           *)
(***************************************************************************)
EXTENDS Integers, Sequences

CONSTANTS
    HostText,   \* what may be typed as a host
    PortText,   \* what may be typed as a port
    EmptyField, \* an input field with nothing in it
    ActionItem, ProtocolItem, IfaceItem,    \* what a box shows, line by line, in the
    TcpItem, IpItem, IcmpItem               \* program's copy of the drawing functions

VARIABLES
    p,          \* the focus
    rule,       \* action, proto, ifs and option of the rule being made
    boxes,      \* line highlighted and item marked in each box, 0 for none
    text        \* the four input fields

formVars == <<p, rule, boxes, text>>

-----------------------------------------------------------------------------
(* Drawing *)

UdpItem == <<>>

\* NONE, IP_NONE and ICMP_NONE are one number.
OptionItem(proto) == [TCP |-> TcpItem, IP |-> IpItem, ICMP |-> IcmpItem, UDP |-> UdpItem][proto]

\* The position of v among items, 0 if it is not one of them.
At(items, v) == IF \E i \in DOMAIN items : items[i] = v
                THEN CHOOSE i \in DOMAIN items : items[i] = v
                ELSE 0

Mark(b, r) == IF b = "action" THEN At(ActionItem, r.action)
              ELSE IF b = "protocol" THEN At(ProtocolItem, r.proto)
              ELSE IF b = "iface" THEN At(IfaceItem, r.ifs)
              ELSE IF b = "options" THEN At(OptionItem(r.proto), r.option)
              ELSE 0

\* draw_<b>(.., line, r): line is highlighted, the item that r has is marked.
Draw(bs, b, line, r) == [bs EXCEPT ![b] = [line |-> line, mark |-> Mark(b, r)]]

Box(q) == IF q \in 1..3 THEN "action"
          ELSE IF q \in 4..7 THEN "protocol"
          ELSE IF q \in 21..23 THEN "iface"
          ELSE IF q \in 24..27 THEN "options"
          ELSE "buttons"

Line(q) == IF q \in 1..3 THEN q
           ELSE IF q \in 4..7 THEN q - 3
           ELSE IF q \in 21..23 THEN q - 20
           ELSE IF q \in 24..27 THEN q - 23
           ELSE q - 11

Initial == [action |-> "ALLOW", proto |-> "TCP", ifs |-> "ANY", option |-> "NONE"]

Blanks == [src |-> EmptyField, src_port |-> EmptyField,
           dst |-> EmptyField, dst_port |-> EmptyField]

\* proto_filter() up to its loop.
Opened == [b \in {"action", "protocol", "iface", "options", "buttons"} |->
              [line |-> IF b = "action" THEN 1 ELSE 0, mark |-> Mark(b, Initial)]]

-----------------------------------------------------------------------------
(* Keys *)

\* Focus q, with box off no longer highlighted and the item of q highlighted.
Leave(off, q) ==
    /\ p' = q
    /\ boxes' = Draw(Draw(boxes, off, 0, rule), Box(q), Line(q), rule)

\* Focus q in the box of p.
Step(q) ==
    /\ p' = q
    /\ boxes' = Draw(boxes, Box(q), Line(q), rule)

\* Into the input field q, from box off.
EditFrom(off, q) ==
    /\ p' = q
    /\ boxes' = Draw(boxes, off, 0, rule)

\* Mutant: there is something after the last button.
MutDown ==
    /\ \/ p \in {1, 2, 4, 5, 6, 12, 21, 22, 24, 25, 26} /\ Step(p + 1)
       \/ p = 3 /\ Leave("action", 4)
       \/ p = 23 /\ Leave("iface", 24)
       \/ p = 7 /\ EditFrom("protocol", 8)
       \/ p = 27 /\ EditFrom("options", 8)
       \/ p = 13 /\ p' = 14 /\ UNCHANGED boxes
    /\ UNCHANGED <<rule, text>>

Down ==
    /\ \/ p \in {1, 2, 4, 5, 6, 12, 21, 22, 24, 25, 26} /\ Step(p + 1)
       \/ p = 3 /\ Leave("action", 4)
       \/ p = 23 /\ Leave("iface", 24)
       \/ p = 7 /\ EditFrom("protocol", 8)
       \/ p = 27 /\ p' = 8 /\ boxes' = Draw(Draw(boxes, "options", 0, rule), "protocol", 0, rule)
    /\ UNCHANGED <<rule, text>>

Left ==
    /\ \/ p \in 21..23 /\ Leave("iface", p - 20)
       \/ p \in 24..27 /\ Leave("options", p - 20)
    /\ UNCHANGED <<rule, text>>

Right ==
    /\ \/ p \in 1..3 /\ Leave("action", p + 20)
       \/ p \in 4..7 /\ Leave("protocol", p + 20)
    /\ UNCHANGED <<rule, text>>

\* Mutant: the options stay highlighted on the way up.
MutUp ==
    /\ \/ p \in {2, 3, 5, 6, 7, 22, 23, 24, 25, 26, 27} /\ Step(p - 1)
       \/ p = 1 /\ Step(1)
       \/ p = 4 /\ Leave("protocol", 3)
       \/ p = 21 /\ Leave("iface", 7)
       \/ p = 12 /\ EditFrom("buttons", 11)
       \/ p = 13 /\ Step(12)
    /\ UNCHANGED <<rule, text>>

\* From OK back into the last field; from Cancel to OK.
Up ==
    /\ \/ p \in {2, 3, 5, 6, 7, 22, 23, 25, 26, 27} /\ Step(p - 1)
       \/ p = 1 /\ Step(1)
       \/ p = 4 /\ Leave("protocol", 3)
       \/ p = 24 /\ Leave("options", 23)
       \/ p = 21 /\ Leave("iface", 7)
       \/ p = 12 /\ EditFrom("buttons", 11)
       \/ p = 13 /\ Step(12)
    /\ UNCHANGED <<rule, text>>

\* Tab leads to the first item of a box, except that back from the directions
\* it puts the focus on the second protocol and highlights the first.
Tab ==
    /\ \/ p \in 1..3 /\ Leave("action", 21)
       \/ p \in 4..7 /\ Leave("protocol", 24)
       \/ /\ p \in 21..23
          /\ p' = 5
          /\ boxes' = Draw(Draw(boxes, "iface", 0, rule), "protocol", 1, rule)
    /\ UNCHANGED <<rule, text>>

\* Mutant: a new protocol keeps the option of the old one.
MutChosen == CASE Box(p) = "action"   -> [rule EXCEPT !.action = ActionItem[p]]
               [] Box(p) = "protocol" -> [rule EXCEPT !.proto = ProtocolItem[p - 3]]
               [] Box(p) = "iface"    -> [rule EXCEPT !.ifs = IfaceItem[p - 20]]
               [] Box(p) = "options"  -> IF rule.proto = "UDP" THEN rule
                    ELSE [rule EXCEPT !.option = OptionItem(rule.proto)[p - 23]]

\* What the space bar makes of the rule.  UDP keeps the option it finds.
Chosen == IF Box(p) = "action" THEN [rule EXCEPT !.action = ActionItem[p]]
          ELSE IF p = 6 THEN [rule EXCEPT !.proto = "UDP"]
          ELSE IF Box(p) = "protocol" THEN [rule EXCEPT !.proto = ProtocolItem[p - 3], !.option = "NONE"]
          ELSE IF Box(p) = "iface" THEN [rule EXCEPT !.ifs = IfaceItem[p - 20]]
          ELSE IF rule.proto = "UDP" THEN rule
          ELSE [rule EXCEPT !.option = OptionItem(rule.proto)[p - 23]]

\* Space draws the box again, and the options after a choice of protocol.
Space ==
    /\ p \in 1..7 \cup 21..27
    /\ rule' = Chosen
    /\ LET own == Draw(boxes, Box(p), Line(p), rule')
       IN  boxes' = IF Box(p) = "protocol" THEN Draw(own, "options", 0, rule')
                    ELSE IF Box(p) = "options" /\ rule.proto = "UDP" THEN boxes
                    ELSE own
    /\ UNCHANGED <<p, text>>

\* line_edit() returns after some typing: with the up key to the field above, or
\* from the first one to the protocols; with any other key to the next field, or
\* from the last one to OK.
Edit(field, t, up) ==
    /\ p \in 8..11
    /\ field = <<"src", "src_port", "dst", "dst_port">>[p - 7]
    /\ text' = [text EXCEPT ![field] = t]
    /\ IF up
       THEN IF p = 8 THEN Step(7) ELSE p' = p - 1 /\ UNCHANGED boxes
       ELSE \/ p = 10 /\ EditFrom("buttons", 11)
            \/ p = 11 /\ Step(12)
            \/ p \in 8..9 /\ p' = p + 1 /\ UNCHANGED boxes
    /\ UNCHANGED rule

Open ==
    /\ p' = 1 /\ rule' = Initial /\ boxes' = Opened /\ text' = Blanks

FormInit ==
    /\ p = 1 /\ rule = Initial /\ boxes = Opened /\ text = Blanks

\* A key other than Enter on a button.
Key ==
    \/ Down \/ Left \/ Right \/ Up \/ Tab \/ Space
    \/ \E field \in {"src", "dst"}, t \in HostText, up \in BOOLEAN : Edit(field, t, up)
    \/ \E field \in {"src_port", "dst_port"}, t \in PortText, up \in BOOLEAN : Edit(field, t, up)

FormSpec == FormInit /\ [][Key]_formVars

-----------------------------------------------------------------------------
(* Properties *)

Rules == [action : {"ALLOW", "DENY", "RESET"}, proto : {"TCP", "IP", "UDP", "ICMP"},
          ifs : {"INCOMING", "OUTGOING", "ANY"},
          option : {"ESTABLISHED", "SETUP", "FRAG", "SSRR", "LSRR", "TS",
                    "ECHO_REQUEST", "DEST_UNREACH", "ECHO_REPLY", "NONE"}]

BoxName == {"action", "protocol", "iface", "options", "buttons"}

FormTypeOK ==
    /\ p \in 1..13 \cup 21..27
    /\ rule \in Rules
    /\ boxes \in [BoxName -> [line : 0..4, mark : 0..4]]
    /\ text \in [src : HostText, src_port : PortText, dst : HostText, dst_port : PortText]

\* The highlight is where the keys act: no box but that of the focus has a
\* highlighted item, and it is the item of the focus, whatever path of keys led
\* there.  The one exception is the second protocol, which Tab reaches with the
\* first one highlighted (filter.c:608-622).
FocusIsHighlighted ==
    \A b \in BoxName :
        boxes[b].line = IF p \in 8..11 \/ Box(p) # b THEN 0
                        ELSE IF p = 5 /\ boxes[b].line = 1 THEN 1
                        ELSE Line(p)

\* The stars show the rule that OK will insert: in each box the marked item is
\* the rule's value, and the option is one of the rule's protocol, although the
\* options of all protocols share their numbers (fw.h:38-44, filter.c:385-523).
MarksShowRule ==
    /\ \A b \in BoxName : boxes[b].mark = Mark(b, rule)
    /\ rule.proto # "UDP" => Mark("options", rule) # 0

=============================================================================
