---------------------------- MODULE SCPMessages ----------------------------
(***************************************************************************)
(* The control messages of the SCP protocol: how scp/messages.go prints    *)
(* them, how scp/lex.go splits a line into items, and how                  *)
(* parseSCPMessage of scp/sink.go makes a message of the items.            *)
(*                                                                         *)
(* A line is a sequence of lexemes, the longest runs of characters that    *)
(* the lexer can take at once.  A name is one lexeme, except that leading  *)
(* digits are a lexeme of their own: they are what the lexer tells apart.  *)
(* Access modes are left out: a mode is the number 0.                      *)
(***************************************************************************)
EXTENDS Integers, Sequences, SequencesExt

CONSTANTS
  Names,    \* names of files and directories, without path separators
  Numeric,  \* those that begin with a digit
  Lengths,  \* what a client announces; TLC gets small sets
  Times     \* Unix times

ASSUME NumericAssumption == Numeric \subseteq Names
ASSUME LengthsAssumption == Lengths \subseteq Nat
ASSUME TimesAssumption == Times \subseteq Int

Letter(t) == [class |-> "letter", val |-> t]
Number(n) == [class |-> "number", val |-> n]
Text(x)   == [class |-> "text", val |-> x]
Space     == [class |-> "space", val |-> 0]
Newline   == [class |-> "newline", val |-> 0]

(***************************************************************************)
(* Printing: the String methods of the four messages.                      *)
(***************************************************************************)
CMessage(n, len) == [type |-> "C", name |-> n, length |-> len, time |-> 0]
DMessage(n, len) == [type |-> "D", name |-> n, length |-> len, time |-> 0]
EMessage == [type |-> "E", name |-> "", length |-> 0, time |-> 0]
TMessage(t) == [type |-> "T", name |-> "", length |-> 0, time |-> t]

Spelling(n) == IF n \in Numeric THEN <<Number(0), Text(n)>> ELSE <<Text(n)>>

\* Unix times before 1970 have a sign.
Signed(t) == IF t < 0 THEN <<Text("-"), Number(-t)>> ELSE <<Number(t)>>

FileString(type, m) ==
  <<Letter(type), Number(0), Space, Number(m.length), Space>>
    \o Spelling(m.name) \o <<Newline>>

CString(m) == FileString("C", m)
DString(m) == FileString("D", m)
EString == <<Letter("E"), Newline>>
TString(m) ==
  <<Letter("T")>> \o Signed(m.time) \o <<Space, Number(0), Space>>
    \o Signed(m.time) \o <<Space, Number(0), Newline>>

String(m) ==
  CASE m.type = "C" -> CString(m)
    [] m.type = "D" -> DString(m)
    [] m.type = "E" -> EString
    [] m.type = "T" -> TString(m)

(***************************************************************************)
(* The lexer.  Its state is the kind of the item emitted last, and         *)
(* LexNext[q] gives the item that a lexeme of each class begins there.     *)
(* Where both a number and a name may follow, digits begin a number.       *)
(***************************************************************************)
LexNext ==
  [start      |-> [letter |-> "itemTyp"],
   itemTyp    |-> [number |-> "itemNumber", newline |-> "itemEnd"],
   itemNumber |-> [space |-> "itemSpace", newline |-> "itemEnd"],
   itemSpace  |-> [number |-> "itemNumber", letter |-> "itemName",
                   text |-> "itemName", space |-> "itemName"],
   itemName   |-> [newline |-> "itemEnd", letter |-> "itemName",
                   text |-> "itemName", space |-> "itemName",
                   number |-> "itemName"],
   itemEnd    |-> << >>,
   itemError  |-> << >>,
   none       |-> << >>]

\* After an unexpected character, and after the end of the line, the lexer stops.
After(q, class) ==
  CASE class \in DOMAIN LexNext[q]             -> LexNext[q][class]
    [] q \in {"itemEnd", "itemError", "none"}  -> "none"
    [] OTHER                                   -> "itemError"

\* The kind of the item that each lexeme of a line begins, or is a part of.
Kinds(line) ==
  LET q[i \in 0 .. Len(line)] ==
        IF i = 0 THEN "start" ELSE After(q[i - 1], line[i].class)
  IN  q

\* The items of a line.  A name goes on to the end of the line, so that what
\* follows its first lexeme, except for the end itself, is no item.  What follows
\* the item at which the lexer stops is of the kind "none", which nothing expects.
lex(line) ==
  LET item(i) == [type |-> Kinds(line)[i], val |-> line[i].val]
      IsName(i) == Kinds(line)[i] = "itemName"
      firstOf(i) == IsName(i) => ~IsName(i - 1)
  IN  IF \A i \in DOMAIN line : firstOf(i)
        THEN [i \in DOMAIN line |-> item(i)]
        ELSE LET name == CHOOSE i \in DOMAIN line : IsName(i) /\ firstOf(i)
             IN  [i \in 1 .. name |-> item(i)] \o <<item(Len(line))>>

(***************************************************************************)
(* The parser.  An item that is missing or of another type than its binder *)
(* makes the line invalid; what the binders themselves return is ignored.  *)
(***************************************************************************)
Invalid == [type |-> "invalid", name |-> "", length |-> 0, time |-> 0]

CBinders == <<"itemNumber", "itemSpace", "itemNumber", "itemSpace",
              "itemName", "itemEnd">>
DBinders == CBinders
EBinders == <<"itemEnd">>
TBinders == <<"itemNumber", "itemSpace", "itemNumber", "itemSpace",
              "itemNumber", "itemSpace", "itemNumber", "itemEnd">>

binders == [C |-> CBinders, D |-> DBinders, E |-> EBinders, T |-> TBinders]

parseSCPMessage(line) ==
  LET items == lex(line)
      type == items[1].val
      \* The whole name, of which the item has the first lexeme.
      name == line[Len(line) - 1].val
  IN  IF items = << >> \/ items[1].type # "itemTyp" THEN Invalid
      ELSE IF \E i \in DOMAIN binders[type] :
                i + 1 \notin DOMAIN items \/ items[i + 1].type # binders[type][i]
        THEN Invalid
      ELSE CASE type = "C" -> CMessage(name, items[4].val)
             [] type = "D" -> DMessage(name, items[4].val)
             [] type = "E" -> EMessage
             [] type = "T" -> TMessage(items[2].val)

(***************************************************************************)
(* The lines that may travel.                                              *)
(***************************************************************************)
Messages ==
  {EMessage} \cup {TMessage(t) : t \in Times}
    \cup {CMessage(n, l) : n \in Names, l \in Lengths}
    \cup {DMessage(n, l) : n \in Names, l \in {0, 1}}

Malformed == {<<Letter("C"), Newline>>, <<Text("x"), Newline>>}

Lines == {String(m) : m \in Messages} \cup Malformed

=============================================================================
