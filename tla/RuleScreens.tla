---------------------------- MODULE RuleScreens ----------------------------
(***************************************************************************)
(* The two screens that insert a rule, with the items of closedbsd/config: *)
(* one of them is on the terminal at a time, and has the state.            *)
(***************************************************************************)
EXTENDS Integers, Sequences

CONSTANTS
    HostText,   \* what may be typed as a host
    PortText    \* what may be typed as a port

VARIABLES p, rule, boxes, text  \* of FilterForm or ForwardForm

\* config/misc.c: the items of each box, from the first line on
ActionItem == <<"ALLOW", "DENY", "RESET">>
ProtocolItem == <<"TCP", "IP", "UDP", "ICMP">>
IfaceItem == <<"INCOMING", "OUTGOING", "ANY">>
TcpItem == <<"ESTABLISHED", "SETUP", "FRAG", "NONE">>
IpItem == <<"SSRR", "LSRR", "TS", "NONE">>
IcmpItem == <<"ECHO_REQUEST", "DEST_UNREACH", "ECHO_REPLY", "NONE">>
ForwardItem == <<"TCP", "UDP">>

FilterScreen == INSTANCE FilterForm WITH EmptyField <- <<>>
ForwardScreen == INSTANCE ForwardForm WITH EmptyField <- <<>>

=============================================================================
