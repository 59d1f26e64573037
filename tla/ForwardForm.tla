---------------------------- MODULE ForwardForm -----------------------------
(***************************************************************************)
(* The screen "Insert a TCP/UDP port forward" (config/forward.c, with the  *)
(* drawing functions of config/misc.c): one box with two protocols, six    *)
(* input fields and two buttons, worked by the same means as FilterForm.   *)
(*                                                                         *)
(*   1, 2  protocol        5, 6  destination, port      9   OK             *)
(*   3, 4  source, port    7, 8  forward to, port       10  Cancel         *)
(***************************************************************************)
EXTENDS Integers, Sequences

CONSTANTS
    HostText,   \* what may be typed as a host
    PortText,   \* what may be typed as a port
    EmptyField, \* an input field with nothing in it
    ForwardItem \* the protocols, line by line

VARIABLES
    p,          \* the focus
    rule,       \* action and proto of the rule being made
    boxes,      \* line highlighted and item marked in each box, 0 for none
    text        \* the six input fields

Field == <<"src", "src_port", "dst", "dst_port", "forw", "forw_port">>

InitialForward == [action |-> "FWD", proto |-> "TCP"]
BlankFields == [i \in {Field[j] : j \in DOMAIN Field} |-> EmptyField]

\* draw_protocol_forward_box(.., line, r)
DrawForward(bs, line, r) ==
    [bs EXCEPT !["protocol"] =
        [line |-> line, mark |-> CHOOSE i \in DOMAIN ForwardItem : ForwardItem[i] = r.proto]]

\* buttons(w, line)
Buttons(bs, line) == [bs EXCEPT !["buttons"] = [line |-> line, mark |-> 0]]

OpenedForward ==
    DrawForward([b \in {"protocol", "buttons"} |-> [line |-> 0, mark |-> 0]], 1, InitialForward)

\* Focus q, which is not an input field.
Item(q) == IF q \in 1..2 THEN DrawForward(boxes, q, rule) ELSE Buttons(boxes, q - 8)

ForwardDown ==
    /\ \/ p \in {1, 9} /\ p' = p + 1 /\ boxes' = Item(p + 1)
       \/ p = 2 /\ p' = 3 /\ boxes' = DrawForward(boxes, 0, rule)
    /\ UNCHANGED <<rule, text>>

ForwardRight ==
    /\ p = 9 /\ p' = 10 /\ boxes' = Item(10)
    /\ UNCHANGED <<rule, text>>

ForwardLeft ==
    /\ p = 10 /\ p' = 9 /\ boxes' = Item(9)
    /\ UNCHANGED <<rule, text>>

ForwardUp ==
    /\ \/ p \in {1, 2} /\ p' = 1 /\ boxes' = Item(1)
       \/ p = 9 /\ p' = 8 /\ boxes' = Buttons(boxes, 0)
       \/ p = 10 /\ p' = 9 /\ boxes' = Item(9)
    /\ UNCHANGED <<rule, text>>

ForwardSpace ==
    /\ p \in 1..2
    /\ rule' = [rule EXCEPT !.proto = ForwardItem[p]]
    /\ boxes' = DrawForward(boxes, p, rule')
    /\ UNCHANGED <<p, text>>

\* line_edit() returns after some typing: the up key leads to the field above,
\* any other key to the next one.
ForwardEdit(field, t, up) ==
    /\ p \in 3..8
    /\ field = Field[p - 2]
    /\ text' = [text EXCEPT ![field] = t]
    /\ p' = IF up THEN p - 1 ELSE p + 1
    /\ boxes' = IF up /\ p = 3 THEN Item(2)
                ELSE IF ~up /\ p = 8 THEN Item(9)
                ELSE IF ~up /\ p = 7 THEN Buttons(boxes, 0)
                ELSE boxes
    /\ UNCHANGED rule

ForwardOpen ==
    /\ p' = 1 /\ rule' = InitialForward /\ boxes' = OpenedForward /\ text' = BlankFields

ForwardKey ==
    \/ ForwardDown \/ ForwardUp \/ ForwardLeft \/ ForwardRight \/ ForwardSpace
    \/ \E field \in {"src", "dst", "forw"}, t \in HostText, up \in BOOLEAN :
            ForwardEdit(field, t, up)
    \/ \E field \in {"src_port", "dst_port", "forw_port"}, t \in PortText, up \in BOOLEAN :
            ForwardEdit(field, t, up)

-----------------------------------------------------------------------------
\* As FilterForm's properties of the same purpose: one highlight, at the focus,
\* and the star at the rule's protocol.
ForwardShowsFocus ==
    /\ boxes["protocol"].line = IF p \in 1..2 THEN p ELSE 0
    /\ boxes["buttons"].line = IF p \in 9..10 THEN p - 8 ELSE 0
    /\ ForwardItem[boxes["protocol"].mark] = rule.proto

=============================================================================
