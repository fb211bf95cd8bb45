---------------------------- MODULE CommandUsage ----------------------------
(***************************************************************************)
(* CommandUsageParser: a usage such as "/ban <name: str> [reason: message]"*)
(* becomes a list of parameters.  The lexer's tokens are the elements of a *)
(* sequence; words stand for identifiers.  The parser never goes back by   *)
(* more than the one token it has peeked at, so it is a fold of Step over  *)
(* the tokens; "at" is the place in the parser's code.                     *)
(***************************************************************************)
EXTENDS Integers, Sequences, Vectors

CONSTANT Word   \* identifiers

Mark == {"/", "(", ")", "<", ">", "[", "]", "|", ":", "?"}

ASSUME UsageAssumption == Word \cap Mark = {}

\* Parameter: optional, is_enum, values, and its type; the type of an unnamed enum is
\* made up from the command and the values, which is here the sequence of both.
Parameter == [optional : BOOLEAN, enum : BOOLEAN, values : Seq(Word), type : Seq(Word)]
Blank == [optional |-> FALSE, enum |-> FALSE, values |-> <<>>, type |-> <<>>]

\* The parser's state: place, command name, parameters so far, the one in the making,
\* and the values in front of it if it is a named enum.
Place == {"slash", "command", "params", "first", "next", "value", "bracket", "name", "after", "type", "alt", "more",
          "close", "error"}
ParserState == [at : Place, name : Seq(Word), out : Seq(Parameter), param : Parameter, listed : BOOLEAN, list : Seq(Word)]
Start == [at |-> "slash", name |-> <<>>, out |-> <<>>, param |-> Blank, listed |-> FALSE, list |-> <<>>]
Error == [Start EXCEPT !.at = "error"]

\* generateNameAndType.
Unnamed(s, values, optional) ==
    [optional |-> optional, enum |-> TRUE, values |-> values, type |-> s.name \o values]

\* The end of parseParameterOrEnum, and of parseEnum around it: a named enum keeps the
\* name and type of its parameter and takes the values in front of it.
Finish(s) ==
    LET p == s.param
        q == IF s.listed THEN [p EXCEPT !.enum = TRUE, !.values = s.list] ELSE p IN
    [s EXCEPT !.at = "params", !.out = Append(@, q), !.param = Blank, !.listed = FALSE, !.list = <<>>]

\* Mutant: a parameter may be closed by either bracket.
ClosesEither(s, t) == t \in {">", "]"}
Closes(s, t) == t = (IF s.param.optional THEN "]" ELSE ">")

\* The unnamed enum in the making has its values.
Named(s) == [s EXCEPT !.param = Unnamed(s, @.values, @.optional)]

\* One token.  parse: slash, command, params; parseEnum: first, next, value;
\* parseParameterOrEnum: bracket, name, after, type, alt, more, close.
Step(s, t) ==
    LET open == [s EXCEPT !.at = "name", !.param = [Blank EXCEPT !.optional = (t = "[")]]
        close(u) == IF Closes(u, t) THEN Finish(u) ELSE Error
    IN CASE s.at = "slash" /\ t = "/" -> [s EXCEPT !.at = "command"]
         [] s.at = "command" /\ t \in Word -> [s EXCEPT !.at = "params", !.name = <<t>>]
         [] s.at = "params" /\ t \in Word -> [s EXCEPT !.out = Append(@, Unnamed(s, <<t>>, FALSE))]
         [] s.at = "params" /\ t = "(" -> [s EXCEPT !.at = "first", !.listed = TRUE]
         [] s.at \in {"params", "bracket"} /\ t \in {"<", "["} -> open
         [] s.at \in {"first", "value"} /\ t \in Word -> [s EXCEPT !.at = "next", !.list = Append(@, t)]
         [] s.at \in {"first", "next"} /\ t = ")" -> [s EXCEPT !.at = "bracket"]
         [] s.at = "next" /\ t = "|" -> [s EXCEPT !.at = "value"]
         [] s.at = "name" /\ t \in Word -> [s EXCEPT !.at = "after", !.param.values = <<t>>]
         [] s.at = "after" /\ t = ":" -> [s EXCEPT !.at = "type", !.param.values = <<>>]
         [] s.at = "type" /\ t \in Word -> [s EXCEPT !.at = "close", !.param.type = <<t>>]
         [] s.at \in {"after", "more"} /\ t = "|" -> [s EXCEPT !.at = "alt"]
         [] s.at = "alt" /\ t \in Word -> [s EXCEPT !.at = "more", !.param.values = Append(@, t)]
         [] s.at \in {"after", "more"} /\ t \in {">", "]"} -> close(Named(s))
         [] s.at = "close" -> close(s)
         [] OTHER -> Error

\* parse: the result is there if the tokens end where a parameter may begin.
Parse(ts) == Folded([t \in Word \cup Mark |-> [s \in ParserState |-> Step(s, t)]], Start, ts)
Parsed(ts) == Parse(ts).at = "params"

-----------------------------------------------------------------------------
(***************************************************************************)
(* What a usage is, by its form and not by a walk over it.  Below, i .. j  *)
(* are the places of a piece of a usage ts.                                *)
(***************************************************************************)
\* Words with a bar between any two, and those words; no words at all where j < i.
Alternatives(ts, i, j) ==
    /\ i <= j /\ (j - i) % 2 = 0
    /\ \A k \in i .. j : IF (k - i) % 2 = 0 THEN ts[k] \in Word ELSE ts[k] = "|"
Chosen(ts, i, j) == [k \in 1 .. (j - i + 2) \div 2 |-> ts[i + 2 * (k - 1)]]

Typed(ts, i, j) == j = i + 4 /\ ts[i + 1] \in Word /\ ts[i + 2] = ":" /\ ts[i + 3] \in Word
Bracketed(ts, i, j) ==
    /\ <<ts[i], ts[j]>> \in {<<"<", ">">>, <<"[", "]">>}
    /\ Typed(ts, i, j) \/ Alternatives(ts, i + 1, j - 1)
\* A list of values in front of a bracket.
Listed(ts, i, j) ==
    /\ ts[i] = "(" /\ ts[j] = ")"
    /\ j = i + 1 \/ Alternatives(ts, i + 1, j - 1)

\* An enum without a name; the usage's second token is the command.
Choice(ts, optional, values) == [optional |-> optional, enum |-> TRUE, values |-> values, type |-> <<ts[2]>> \o values]
\* The parameter that a bracket stands for, and that with a list in front.
Bracket(ts, i, j) ==
    IF Typed(ts, i, j)
    THEN [optional |-> ts[i] = "[", enum |-> FALSE, values |-> <<>>, type |-> <<ts[i + 3]>>]
    ELSE Choice(ts, ts[i] = "[", Chosen(ts, i + 1, j - 1))
WithList(p, values) == [p EXCEPT !.enum = TRUE, !.values = values]

\* The parameters that a piece can mean: none or one.
Meanings(ts, i, j) ==
    {Choice(ts, FALSE, <<ts[k]>>) : k \in {k \in {i} : i = j /\ ts[k] \in Word}}
    \cup {Bracket(ts, k, j) : k \in {k \in {i} : Bracketed(ts, k, j)}}
    \cup {WithList(Bracket(ts, k + 1, j), Chosen(ts, i + 1, k - 1)) :
              k \in {k \in i + 1 .. j - 1 : Listed(ts, i, k) /\ Bracketed(ts, k + 1, j)}}

\* A usage is a slash, a command and parameters one after the other.  Its readings are
\* the lists of parameters it can be cut into: the last is what some last piece means.
Readings(ts) ==
    LET upTo[j \in 2 .. Len(ts)] ==
            IF j = 2 THEN {<<>>}
            ELSE UNION {{Append(ps, p) : ps \in upTo[i - 1], p \in Meanings(ts, i, j)} :
                           i \in {k \in 3 .. j : Meanings(ts, k, j) # {}}}
    IN IF Len(ts) >= 2 /\ ts[1] = "/" /\ ts[2] \in Word THEN upTo[Len(ts)] ELSE {}
=============================================================================
