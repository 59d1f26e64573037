----------------------------- MODULE RuleEditor -----------------------------
(***************************************************************************)
(* ipfwconfig, the rule editor on its own (closedbsd/ipfwconfig): a menu,  *)
(* the two screens that insert rules, a prompt for a command and a list to *)
(* delete from.  What it edits, /etc/rules and the rules in the kernel,    *)
(* other sessions edit too, of this program or of the console: each of     *)
(* their operations may come while a screen or the list is shown.  The     *)
(* list is what the script held when it was opened, and writes it anew.    *)
(*                                                                         *)
(* Only the session Editor has the screens, which are those of the console *)
(* but for their place in the source.  The menu entries List and Save      *)
(* change nothing.                                                         *)
(***************************************************************************)
EXTENDS RuleText, SequencesExt

CONSTANTS
    Sessions, Editor,
    HostText, PortText, \* what may be typed
    Raw,        \* commands typed at the prompt
    Quoted,     \* those of them with a q in the last word
    MaxLines    \* bound: no line is added when the script has that many

VARIABLES
    screen,     \* of each session
    p, rule, boxes, text,   \* the screen of Editor
    script, chain,
    rlist,      \* the rules in each session's list, while it is shown
    behind,     \* the script was changed since
    intended    \* the rules as the operators see them, but for the lists that go astray
vars == <<screen, p, rule, boxes, text, script, chain, rlist, behind, intended>>
form == <<p, rule, boxes, text>>
files == <<script, chain, intended>>
lists == <<rlist, behind>>

\* The copy of misc.c: the items of each box, from the first line on
ActionItem == <<"ALLOW", "DENY", "RESET">>
ProtocolItem == <<"TCP", "IP", "UDP", "ICMP">>
IfaceItem == <<"INCOMING", "OUTGOING", "ANY">>
TcpItem == <<"ESTABLISHED", "SETUP", "FRAG", "NONE">>
IpItem == <<"SSRR", "LSRR", "TS", "NONE">>
IcmpItem == <<"ECHO_REQUEST", "DEST_UNREACH", "ECHO_REPLY", "NONE">>
ForwardItem == <<"TCP", "UDP">>

FilterScreen == INSTANCE FilterForm WITH EmptyField <- EmptyText
ForwardScreen == INSTANCE ForwardForm WITH EmptyField <- EmptyText

-----------------------------------------------------------------------------
(* The script and the kernel *)

\* ipfw takes the rule or not.
Ipfw(rules, b) == IF Parse(b).ok THEN Append(rules, b) ELSE rules

\* It is run for each line.
Replay(lines) ==
    LET after[n \in 0..Len(lines)] == IF n = 0 THEN <<>> ELSE Ipfw(after[n - 1], lines[n])
    IN  after[Len(lines)]

\* The title in the list: the words between the q of -q and the next one
Title(b) == IF b \in Quoted THEN Front(b) ELSE b
Menu(s) == screen[s] = "menu"
GoTo(s, what) == screen' = [screen EXCEPT ![s] = what]

\* The script is another one now, which the lists of other sessions do not know.
Changed(s) == behind' = [t \in Sessions |-> behind[t] \/ (t # s /\ screen[t] = "delete")]

\* raw_add_rule()
\* Mutant: the rules in force are not flushed first.
MutRawAddRule(s, b) ==
    /\ Menu(s) /\ Len(script) < MaxLines
    /\ script' = Append(script, b) /\ chain' = chain \o Replay(script')
    /\ intended' = Append(intended, b)
    /\ Changed(s)
    /\ UNCHANGED <<screen, form, rlist>>

RawAddRule(s, b) ==
    /\ Menu(s) /\ Len(script) < MaxLines
    /\ script' = Append(script, b) /\ chain' = Replay(script')
    /\ intended' = Append(intended, b)
    /\ Changed(s)
    /\ UNCHANGED <<screen, form, rlist>>

Flush(s) ==
    /\ Menu(s)
    /\ script' = <<>> /\ chain' = <<>> /\ intended' = <<>>
    /\ Changed(s)
    /\ UNCHANGED <<screen, form, rlist>>

-----------------------------------------------------------------------------
(* Deleting *)

\* delete_rule(), if there is something to delete
DeleteRule(s) ==
    /\ Menu(s) /\ script # <<>>
    /\ GoTo(s, "delete")
    /\ rlist' = [rlist EXCEPT ![s] = [i \in DOMAIN script |-> Title(script[i])]]
    /\ behind' = [behind EXCEPT ![s] = FALSE]
    /\ UNCHANGED <<form, files>>

\* drop_rule() for the item d.  A list that was behind, or of which it cut another line,
\* goes astray: it is what is there from now on.
DropRule(s, d) ==
    /\ screen[s] = "delete" /\ d \in DOMAIN rlist[s]
    /\ script' = RemoveAt(rlist[s], d) /\ chain' = Replay(script')
    /\ LET astray == behind[s] \/ \E i \in DOMAIN script \ {d} : script[i] \in Quoted
       IN  intended' = IF astray THEN script' ELSE RemoveAt(intended, d)
    /\ GoTo(s, "menu") /\ rlist' = [rlist EXCEPT ![s] = <<>>]
    /\ Changed(s)
    /\ UNCHANGED form

CancelDelete(s) ==
    /\ screen[s] = "delete"
    /\ GoTo(s, "menu") /\ rlist' = [rlist EXCEPT ![s] = <<>>] /\ behind' = [behind EXCEPT ![s] = FALSE]
    /\ UNCHANGED <<form, files>>

-----------------------------------------------------------------------------
(* The screen for a filter *)

\* Bound: one rule from the screens at a time, in the script or a list
Bounded == script = <<>> /\ \A s \in Sessions : ToSet(rlist[s]) \subseteq {Title(b) : b \in Raw}

ProtoFilter ==
    /\ Menu(Editor) /\ Bounded
    /\ GoTo(Editor, "filter") /\ FilterScreen!Open
    /\ UNCHANGED <<files, lists>>

FilterKey == screen[Editor] = "filter" /\ UNCHANGED <<screen, files, lists>>
FilterDown == FilterKey /\ FilterScreen!Down
FilterLeft == FilterKey /\ FilterScreen!Left
FilterRight == FilterKey /\ FilterScreen!Right
FilterUp == FilterKey /\ FilterScreen!Up
FilterTab == FilterKey /\ FilterScreen!Tab
FilterSpace == FilterKey /\ FilterScreen!Space
FilterEdit ==
    /\ FilterKey
    /\ \/ \E field \in {"src", "dst"}, t \in HostText, up \in BOOLEAN : FilterScreen!Edit(field, t, up)
       \/ \E field \in {"src_port", "dst_port"}, t \in PortText, up \in BOOLEAN : FilterScreen!Edit(field, t, up)

\* What is on the screen is gone with it.
Close == GoTo(Editor, "menu") /\ FilterScreen!Open

\* __insert_rule() gives the command to ipfw and to the end of the script.
InsertRule(commands) ==
    \E b \in commands :
        /\ script' = Append(script, b) /\ intended' = Append(intended, b)
        /\ chain' = Ipfw(chain, b)
        /\ Changed(Editor)

FilterOK ==
    /\ screen[Editor] = "filter" /\ p = 12
    /\ IF rule.action = "RESET" /\ rule.proto # "TCP" THEN UNCHANGED <<script, chain, intended, behind>>
       ELSE InsertRule(FilterCommand(FilterFields(rule, text)))
    /\ Close /\ UNCHANGED rlist

-----------------------------------------------------------------------------
(* The screen for a forwarded port *)

ProtoForward ==
    /\ Menu(Editor) /\ Bounded
    /\ GoTo(Editor, "forward") /\ ForwardScreen!ForwardOpen
    /\ UNCHANGED <<files, lists>>

ForwardKey == screen[Editor] = "forward" /\ UNCHANGED <<screen, files, lists>>
ForwardDown == ForwardKey /\ ForwardScreen!ForwardDown
ForwardRight == ForwardKey /\ ForwardScreen!ForwardRight
ForwardLeft == ForwardKey /\ ForwardScreen!ForwardLeft
ForwardUp == ForwardKey /\ ForwardScreen!ForwardUp
ForwardSpace == ForwardKey /\ ForwardScreen!ForwardSpace
ForwardEdit ==
    /\ ForwardKey
    /\ \/ \E field \in {"src", "dst", "forw"}, t \in HostText, up \in BOOLEAN :
              ForwardScreen!ForwardEdit(field, t, up)
       \/ \E field \in {"src_port", "dst_port", "forw_port"}, t \in PortText, up \in BOOLEAN :
              ForwardScreen!ForwardEdit(field, t, up)

ForwardOK ==
    /\ screen[Editor] = "forward" /\ p = 9
    /\ InsertRule(ForwardCommand(ForwardFields(rule, text)))
    /\ Close /\ UNCHANGED rlist

Cancel ==
    /\ <<screen[Editor], p>> \in {<<"filter", 13>>, <<"forward", 10>>}
    /\ Close
    /\ UNCHANGED <<files, lists>>

-----------------------------------------------------------------------------
EditorInit ==
    /\ screen = [s \in Sessions |-> "menu"]
    /\ FilterScreen!FormInit
    /\ script = <<>> /\ chain = <<>> /\ intended = <<>>
    /\ rlist = [s \in Sessions |-> <<>>] /\ behind = [s \in Sessions |-> FALSE]

EditorNext ==
    \/ \E s \in Sessions :
          \/ \E b \in Raw : RawAddRule(s, b)
          \/ Flush(s) \/ DeleteRule(s) \/ CancelDelete(s)
          \/ \E d \in 1..(MaxLines + 1) : DropRule(s, d)
    \/ ProtoFilter \/ FilterDown \/ FilterLeft \/ FilterRight \/ FilterUp \/ FilterTab \/ FilterSpace
    \/ FilterEdit \/ FilterOK
    \/ ProtoForward \/ ForwardDown \/ ForwardRight \/ ForwardLeft \/ ForwardUp \/ ForwardSpace
    \/ ForwardEdit \/ ForwardOK \/ Cancel

-----------------------------------------------------------------------------
\* Whatever the sessions do one between the screens of another, the rules in force are
\* those of the script, which are those that were added and not deleted since it was last
\* written from a list that was behind, or a line of it cut; and the screens show what OK
\* will insert.
KeepsRules ==
    /\ chain = Replay(script)
    /\ script = intended
    /\ screen[Editor] = "filter" => FilterScreen!FocusIsHighlighted /\ FilterScreen!MarksShowRule
    /\ screen[Editor] = "forward" => ForwardScreen!ForwardShowsFocus

=============================================================================
