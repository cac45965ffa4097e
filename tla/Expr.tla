-------------------------------- MODULE Expr --------------------------------
(* A mathematical expression: sg_expr.c over the parser of expr.h, which   *)
(* reads one lexeme after the other and keeps an operand stack (es), an    *)
(* operator stack (os) and a stack of open calls (as).                     *)
(*                                                                         *)
(* Lexemes are strings of an alphabet; numbers are small integers.  The    *)
(* text is chosen while it is read.  Memory is not exhausted.              *)
EXTENDS Integers, Sequences, FiniteSets, FiniteSetsExt, SequencesExt

CONSTANTS Lexemes,      \* the lexemes of the texts
          Funcs,        \* the functions of the extensions
          Preambles,    \* what a text begins with
          MaxLexemes    \* bound on the lexemes that follow

ASSUME ExprAssumption == MaxLexemes \in Nat /\ Funcs \subseteq Lexemes

VARIABLES status,   \* "cleared", "parsing", "compiled", "failed" at a lexeme,
                    \* "refused" at the end of the text, "freed"
          start,    \* the preamble of the text
          text,     \* the lexemes read after it
          look,     \* the next lexeme
          p,        \* the parser
          handle,   \* the compiled expression
          vars,     \* the variables and their values
          result    \* what the last evaluation gave

exprVars == <<status, start, text, look, p, handle, vars, result>>

End == "end of text"
None == "none"
Unary == {"-u", "!u", "^u"}

(* Precedence: the smaller binds tighter.                                  *)
Prec(op) ==
  CASE op \in Unary -> 1
    [] op \in {"**", "/", "*", "%"} -> 2   [] op \in {"+", "-"} -> 3
    [] op \in {"<<", ">>"} -> 4            [] op \in {"<", "<=", ">", ">=", "==", "!="} -> 5
    [] op = "&" -> 6   [] op = "|" -> 7    [] op = "^" -> 8    [] op = "&&" -> 9
    [] op = "||" -> 10 [] op = "=" -> 11   [] op = "," -> 12
Binary == {"**", "/", "*", "%", "+", "-", "<<", ">>", "<", "<=", ">", ">=", "==", "!=", "&",
           "|", "^", "&&", "||", "=", ","}
RightAssoc == {"=", "**", ","}

IsNumber(t) == t \in {"2", "3", "2.3.4"}
Words == {"x", "f", "$", "$1"}
IsWord(t) == t \in Words
IsBlank(t) == t \in {"blank", "blanks", "nl", "#"}
NumberOf(t) == IF t = "2" THEN 2 ELSE 3

Const(n) == [type |-> "const", value |-> n]
Var(w) == [type |-> "var", name |-> w]
Node(op, args) == [type |-> op, args |-> args]
Call(f, args) == [type |-> "func", func |-> f, args |-> args]

(* Lexemes that would be read as one.                                      *)
Glued(s, t) ==
  \/ IsWord(s) /\ (IsWord(t) \/ IsNumber(t) \/ t = "#")
  \/ IsNumber(s) /\ IsNumber(t)
  \/ s \in {"blank", "blanks"} /\ t \in {"blank", "blanks"}
  \/ s = "nl" /\ t \in {"blank", "blanks", "nl"}
  \/ s = "#" /\ t # "nl"
  \/ s = "*" /\ t \in {"*", "**"}
  \/ s = "=" /\ t = "="

-----------------------------------------------------------------------------
(* The lexer: what may come next is a set of flags.                        *)
Default == {"open", "number", "word"}

AfterClose == {"top", "close"}

NeedsOperand(t) == t \in Binary \ {"-", "^"}

LexError(flags, t) ==
  CASE IsNumber(t) /\ "number" \notin flags -> "unexpected number"
    [] IsWord(t) /\ "word" \notin flags -> "unexpected word"
    [] t = "(" /\ "open" \notin flags -> "unexpected parenthesis"
    [] t = ")" /\ "close" \notin flags -> "unexpected parenthesis"
    [] NeedsOperand(t) /\ "top" \notin flags -> "missing operand"
    [] t = "!" /\ "top" \in flags -> "unknown operator"
    [] OTHER -> None

LexFlags(flags, t, next) ==
  CASE t = "nl" /\ "top" \in flags -> IF next \in {End, ")"} THEN flags \ {"comma"}
                                                            ELSE Default \cup {"comma"}
    [] IsNumber(t) -> {"top", "close"}
    [] IsWord(t) -> {"top", "open", "close"}
    [] t = "(" -> Default \cup {"close"}
    [] t = ")" -> AfterClose
    [] t \in Binary \cup {"!"} -> IF "top" \in flags THEN Default ELSE Default \cup {"unary"}
    [] OTHER -> flags

(* The token of a lexeme: a sign is marked, a line end may be a comma.     *)
TokenOf(flags, t) ==
  CASE "unary" \in flags /\ t = "-" -> "-u"
    [] "unary" \in flags /\ t = "!" -> "!u"
    [] "unary" \in flags /\ t = "^" -> "^u"
    [] t = "nl" /\ "comma" \in flags -> ","
    [] OTHER -> t

-----------------------------------------------------------------------------
(* expr_bind: an operator takes its operands from es.                      *)
Binds(op, es) ==
  \/ op \in Unary /\ Len(es) >= 1
  \/ /\ op \in Binary /\ Len(es) >= 2
     /\ op = "=" => es[Len(es) - 1].type = "var"
Bound(op, es) ==
  LET n == IF op \in Unary THEN 1 ELSE 2
      k == Len(es) - n
  IN  Append(SubSeq(es, 1, k), Node(op, SubSeq(es, k + 1, Len(es))))

(* Fault: operators of one precedence are bound from the right.            *)
Before_right(a, b) == Prec(a) > Prec(b)

(* expr_prec: b, which is on the stack, is bound before a is pushed.       *)
Before(a, b) ==
  \/ a \in Binary \ RightAssoc /\ Prec(a) >= Prec(b)
  \/ Prec(a) > Prec(b)

(* The operators on top of os that the token t binds, above the limit min. *)
Stays(t, op) ==
  CASE t = End -> FALSE
    [] t = ")" -> op \in {"(", "{"}
    [] OTHER -> op \notin Unary \cup Binary \/ ~Before(t, op)
RECURSIVE Reduce(_, _, _, _)
Reduce(t, min, os, es) ==
  IF Len(os) <= min \/ Stays(t, Last(os)) THEN [os |-> os, es |-> es, ok |-> TRUE]
  ELSE IF ~Binds(Last(os), es) THEN [os |-> os, es |-> es, ok |-> FALSE]
  ELSE Reduce(t, min, Front(os), Bound(Last(os), es))

-----------------------------------------------------------------------------
ParserOf(funcs) ==
  [flags |-> Default, paren |-> "allowed", id |-> None, es |-> << >>, os |-> << >>,
   as |-> << >>, macros |-> << >>, names |-> {}, err |-> None, funcs |-> funcs]
Parser == ParserOf(Funcs)

Error(q, e) == [q EXCEPT !.err = e]
Push(q, e) == [q EXCEPT !.es = Append(@, e)]
expr_func(q, w) == w \in q.funcs
MacroIn(q, w) == SelectLastInSeq(q.macros, LAMBDA m : m.name = w)

(* A word is a variable unless a parenthesis follows it.                   *)
Resolved(q, t) ==
  LET w == q.id IN
  IF w = None THEN q
  ELSE IF t # "(" THEN [Push(q, Var(w)) EXCEPT !.id = None, !.paren = "forbidden",
                                               !.names = @ \cup {w}]
  ELSE IF w = "$" \/ MacroIn(q, w) > 0 \/ expr_func(q, w)
       THEN [q EXCEPT !.id = None, !.os = Append(@, w), !.paren = "expected"]
       ELSE Error(q, "invalid function name")

Opened(q) == [oslen |-> Len(q.os) + 1, eslen |-> Len(q.es), args |-> << >>]

Open(q) ==
  CASE q.paren = "expected" ->
         [q EXCEPT !.os = Append(@, "{"), !.paren = "allowed",
                   !.as = Append(@, Opened(q))]
    [] q.paren = "allowed" -> [q EXCEPT !.os = Append(@, "(")]
    [] OTHER -> Error(q, "bad call")

Param(i) == IF i = 1 THEN "$1" ELSE "$2"

(* The expansion of a macro: its arguments are assigned to the parameters, *)
(* then the expressions of its body follow.                                *)
Expanded(body, args) ==
  LET assigns == [i \in DOMAIN args |-> Node("=", <<Var(Param(i)), args[i]>>)]
      last    == IF Len(body) > 1 THEN Last(body) ELSE Const(0)
      inner   == SubSeq(body, 2, Len(body) - 1)
  IN  FoldRight(LAMBDA a, b : Node(",", <<a, b>>), assigns \o inner, last)

(* The call of w is closed: a macro is defined or expanded, or a function  *)
(* is called.                                                              *)
Closed(q, w, args) ==
  CASE w = "$" /\ args = << >> -> Error(q, "too few arguments")
    [] w = "$" /\ args # << >> /\ args[1].type # "var" -> Error(q, "first argument is not a variable")
    [] w = "$" /\ args # << >> /\ args[1].type = "var" ->
         Push([q EXCEPT !.macros = Append(@, [name |-> args[1].name, body |-> args])], Const(0))
    [] w # "$" /\ MacroIn(q, w) > 0 ->
         Push([q EXCEPT !.names = @ \cup {Param(i) : i \in DOMAIN args}],
              Expanded(q.macros[MacroIn(q, w)].body, args))
    [] OTHER -> Push(q, Call(w, args))

Close(q) ==
  LET min == IF q.as = << >> THEN 0 ELSE Last(q.as).oslen
      r   == Reduce(")", min, q.os, q.es)
      a   == Last(q.as)
      own == Len(r.es) > a.eslen
  IN  CASE ~r.ok -> Error(q, "unknown")
        [] r.ok /\ r.os = << >> -> Error(q, "bad parenthesis")
        [] r.ok /\ r.os # << >> /\ Last(r.os) = "{" ->
             Closed([q EXCEPT !.os = Front(Front(r.os)), !.as = Front(@), !.paren = "forbidden",
                              !.es = IF own THEN Front(r.es) ELSE r.es],
                    Last(Front(r.os)), IF own THEN Append(a.args, Last(r.es)) ELSE a.args)
        [] OTHER -> [q EXCEPT !.os = Front(r.os), !.es = r.es, !.paren = "forbidden"]

Number(q, t) ==
  IF t = "2.3.4" THEN Error(q, "bad variable name")
                 ELSE [Push(q, Const(NumberOf(t))) EXCEPT !.paren = "forbidden"]

(* A comma right after the parenthesis of a call ends an argument.         *)
Operator(q, t) ==
  LET r == Reduce(t, 0, q.os, q.es) IN
  CASE ~r.ok -> Error(q, "unknown")
    [] r.ok /\ t = "," /\ r.os # << >> /\ Last(r.os) = "{" ->
         IF r.es = << >> THEN Error(q, "undefined")
         ELSE [q EXCEPT !.os = r.os, !.es = Front(r.es), !.paren = "allowed",
                        !.as = Append(Front(@), [Last(@) EXCEPT !.args = Append(@, Last(r.es))])]
    [] OTHER -> [q EXCEPT !.os = Append(r.os, t), !.es = r.es, !.paren = "allowed"]

Word(q, t) == [q EXCEPT !.id = t, !.paren = "allowed"]

(* One round of the loop of expr_create2 for the lexeme t.                 *)
Parsed(q, t, next) ==
  LET flags == LexFlags(q.flags, t, next)
      tok   == TokenOf(flags, t)
      l     == [q EXCEPT !.flags = flags \ (IF tok = "," THEN {"comma"} ELSE {})]
      s     == Resolved(l, tok)
  IN  CASE LexError(q.flags, t) # None -> Error(q, LexError(q.flags, t))
        [] OTHER ->
           CASE t \in {"blank", "nl"} /\ "unary" \in flags -> Error(q, "unknown")
             [] IsBlank(tok) /\ ~(t \in {"blank", "nl"} /\ "unary" \in flags) -> l
             [] ~IsBlank(tok) /\ s.err # None -> s
             [] ~IsBlank(tok) /\ s.err = None ->
                CASE tok = "(" -> Open(s)
                  [] tok = ")" -> Close(s)
                  [] s.paren = "expected" -> Error(s, "bad call")
                  [] IsNumber(tok) -> Number(s, tok)
                  [] IsWord(tok) -> Word(s, tok)
                  [] OTHER -> Operator(s, tok)

(* At the end of the text the last word is a variable, the operators left  *)
(* are bound, and the top of es is the expression.                         *)
Ended(q) ==
  LET s == IF q.id = None THEN q ELSE [Push(q, Var(q.id)) EXCEPT !.names = @ \cup {q.id}]
      r == Reduce(End, 0, s.os, s.es)
  IN  IF r.ok THEN [s EXCEPT !.es = r.es, !.os = r.os]
              ELSE Error(s, IF Last(r.os) = "=" THEN "bad assignment" ELSE "bad parenthesis")

-----------------------------------------------------------------------------
(* The power of a program that has not called sg_math_set.                 *)
sg__expr_pow(x, y) == 0

(* expr_eval: the value of e and the variables after it.  In which order C *)
(* evaluates the operands of an arithmetic operator is not specified.      *)
Arith(op, a, b) ==
  CASE op = "*" -> a * b  [] op = "+" -> a + b  [] op = "-" -> a - b
    [] op = "<" -> IF a < b THEN 1 ELSE 0
    [] op = "==" -> IF a = b THEN 1 ELSE 0
    [] op = "**" -> sg__expr_pow(a, b)

(* A function is given NULL when it has no arguments; f gives 0 then, and  *)
(* its first argument otherwise.                                           *)
sg__expr_func(args, zero, first) == IF args = << >> THEN zero ELSE first

RECURSIVE Eval(_, _, _)
Eval(e, env, leftFirst) ==
  LET V(v, ev) == [v |-> v, env |-> ev]
      E1(ev) == Eval(e.args[1], ev, leftFirst)
      E2(ev) == Eval(e.args[2], ev, leftFirst)
      a == E1(env)
  IN
  CASE e.type = "const" -> V(e.value, env)
    [] e.type = "var" -> V(env[e.name], env)
    [] e.type = "func" -> sg__expr_func(e.args, V(0, env), E1(env))
    [] e.type = "-u" -> V(-a.v, a.env)
    [] e.type = "!u" -> V(IF a.v = 0 THEN 1 ELSE 0, a.env)
    [] e.type = "^u" -> V(-a.v - 1, a.env)
    [] e.type = "&&" -> IF a.v = 0 THEN a ELSE E2(a.env)
    [] e.type = "||" -> IF a.v # 0 THEN a ELSE E2(a.env)
    [] e.type = "=" -> LET b == E2(env) IN V(b.v, [b.env EXCEPT ![e.args[1].name] = b.v])
    [] e.type = "," -> E2(a.env)
    [] OTHER -> IF leftFirst THEN LET b == E2(a.env) IN V(Arith(e.type, a.v, b.v), b.env)
                ELSE LET b == E2(env)  c == E1(b.env) IN V(Arith(e.type, c.v, b.v), c.env)

(* An expression: a number, a variable, or an operator or a function with  *)
(* its arguments.                                                          *)
RECURSIVE IsExpr(_)
IsExpr(e) ==
  /\ e.type = "const" => e.value \in Int
  /\ e.type = "var" => e.name \in Words \cup {"$2"}
  /\ e.type = "func" => e.func \in Funcs
  /\ e.type \in Unary => Len(e.args) = 1
  /\ e.type \in Binary => Len(e.args) = 2
  /\ e.type = "=" => e.args[1].type = "var"
  /\ e.type \in {"const", "var", "func"} \cup Unary \cup Binary
  /\ e.type \notin {"const", "var"} => \A i \in DOMAIN e.args : IsExpr(e.args[i])

RECURSIVE NamesIn(_), Calls(_)
Calls(e) ==
  \/ e.type = "func"
  \/ e.type \notin {"const", "var"} /\ \E i \in DOMAIN e.args : Calls(e.args[i])
NamesIn(e) ==
  CASE e.type = "var" -> {e.name}
    [] e.type = "const" -> {}
    [] OTHER -> UNION {NamesIn(e.args[i]) : i \in DOMAIN e.args}

-----------------------------------------------------------------------------
NoVars == [w \in {} |-> 0]
NoHandle == Const(0)

(* The expression on top of es; without one it is 0.                       *)
Compiled(q) == IF q.es = << >> THEN Const(0) ELSE Last(q.es)

(* Variables are created with the value 0.                                 *)
WithNames(names) == [w \in DOMAIN vars \cup names |-> IF w \in DOMAIN vars THEN vars[w] ELSE 0]

Init ==
  /\ status = "cleared" /\ start = << >> /\ text = << >> /\ look = End /\ p = Parser
  /\ handle = NoHandle /\ vars = NoVars /\ result = 0

(* sg_expr_set_var and sg_expr_var, which declare the variable x.          *)
SetVar ==
  /\ status \in {"cleared", "compiled"} /\ "x" \notin DOMAIN vars
  /\ vars' = [v \in DOMAIN vars \cup {"x"} |-> IF v = "x" THEN 2 ELSE vars[v]]
  /\ UNCHANGED <<status, start, text, look, p, handle, result>>

GetVar ==
  /\ status \in {"cleared", "compiled"} /\ "x" \notin DOMAIN vars
  /\ vars' = WithNames({"x"})
  /\ UNCHANGED <<status, start, text, look, p, handle, result>>

Following(t, n) == IF n = MaxLexemes THEN {End} ELSE {End} \cup {l \in Lexemes : ~Glued(t, l)}
Read(lexemes) == FoldLeft(LAMBDA q, t : Parsed(q, t, End), Parser, lexemes)
Failed(q) == q.err # None

(* sg_expr_compile.  One text is compiled in a behavior.                   *)
Compile ==
  /\ status = "cleared" /\ look = End /\ text = << >>
  /\ status' = "parsing"
  /\ \E pre \in Preambles :
       /\ start' = pre
       /\ p' = Read(pre)
       /\ vars' = WithNames(p'.names)
       /\ look' \in Following(IF pre = << >> THEN None ELSE Last(pre), 0)
  /\ UNCHANGED <<text, handle, result>>

Parse ==
  /\ status = "parsing" /\ look # End
  /\ text' = Append(text, look)
  /\ look' \in Following(look, Len(text) + 1)
  /\ p' = Parsed(p, look, look')
  /\ status' = IF Failed(p') THEN "failed" ELSE "parsing"
  /\ vars' = WithNames(p'.names)
  /\ UNCHANGED <<start, handle, result>>

Finish ==
  /\ status = "parsing" /\ look = End
  /\ p' = Ended(p)
  /\ status' = IF Failed(p') THEN "refused" ELSE "compiled"
  /\ handle' = IF Failed(p') THEN NoHandle ELSE Compiled(p')
  /\ vars' = WithNames(p'.names)
  /\ UNCHANGED <<start, text, look, result>>

(* The errors that sg_expr_err and sg_expr_strerror tell apart.            *)
ErrTypes ==
  {"unknown", "unexpected number", "unexpected word", "unexpected parenthesis",
   "missing operand", "unknown operator", "invalid function name", "bad parenthesis",
   "too few arguments", "first argument is not a variable", "bad variable name",
   "bad assignment"}
ParserErrors == ErrTypes \cup {"bad call"}
sg_expr_err == IF p.err \in ErrTypes THEN p.err ELSE "unknown"
sg_expr_strerror == IF p.err \in ParserErrors THEN p.err ELSE None

(* sg_expr_eval, while the variables are within MaxValue.                  *)
MaxValue == 9
Evaluate ==
  /\ status = "compiled" /\ result = 0
  /\ \A w \in DOMAIN vars : vars[w] \in -MaxValue..MaxValue
  /\ \E leftFirst \in BOOLEAN :
       LET r == Eval(handle, vars, leftFirst) IN result' = r.v /\ vars' = r.env
  /\ UNCHANGED <<status, start, text, look, p, handle>>

(* sg_expr_calc of a text: the values it may give, none for NAN.  It has   *)
(* no functions, and variables only of the text.                           *)
(* Fault: it has the functions of the extensions.                          *)
CalcFuncs_all == Funcs
CalcFuncs == {}
expr_calc2(s) ==
  LET next(i) == IF i = Len(s) THEN End ELSE s[i + 1]
      step(q, i) == IF Failed(q) THEN q ELSE Parsed(q, s[i], next(i))
      read == FoldLeft(step, ParserOf(CalcFuncs), [i \in DOMAIN s |-> i])
      q == IF Failed(read) THEN read ELSE Ended(read)
  IN  IF Failed(q) THEN {}
      ELSE {Eval(Compiled(q), [w \in q.names |-> 0], b).v : b \in BOOLEAN}
sg_expr_calc(s) == IF s = << >> THEN {} ELSE expr_calc2(s)

(* Fault: the variables are freed and the expression is kept.              *)
ClearHandle_kept == handle
ClearHandle == NoHandle

sg__expr_clear ==
  /\ handle' = ClearHandle /\ vars' = NoVars /\ p' = Parser
  /\ UNCHANGED <<start, text, look, result>>

(* sg_expr_clear.                                                          *)
Clear ==
  /\ status \in {"compiled", "failed", "refused"}
  /\ status' = "cleared" /\ sg__expr_clear

(* sg_expr_free.                                                           *)
Free ==
  /\ status \notin {"parsing", "freed"}
  /\ status' = "freed" /\ handle' = NoHandle /\ vars' = NoVars /\ p' = Parser
  /\ UNCHANGED <<start, text, look, result>>

Next == SetVar \/ GetVar \/ Compile \/ Parse \/ Finish \/ Evaluate \/ Clear \/ Free

Spec == Init /\ [][Next]_exprVars

-----------------------------------------------------------------------------
(* What a text means, by its grammar: the operator that binds last splits  *)
(* it.  A line end that follows an operand is a comma unless the text or a *)
(* parenthesis ends there.                                                 *)
EndsOperand(t) == IsNumber(t) \/ IsWord(t) \/ t = ")"
Separates(s, i, ts) ==
  s[i] = "nl" /\ ts # << >> /\ EndsOperand(Last(ts)) /\ i < Len(s) /\ s[i + 1] # ")"
Tokens(s) ==
  LET next(ts, i) == IF Separates(s, i, ts) THEN Append(ts, ",")
                     ELSE IF IsBlank(s[i]) THEN ts ELSE Append(ts, s[i])
  IN  FoldLeftDomain(next, << >>, s)

Count(ts, n, t) == Cardinality({i \in 1..n : ts[i] = t})
Outer(ts, n) == Count(ts, n - 1, "(") = Count(ts, n - 1, ")")
Splits(ts) ==
  {i \in 2..Len(ts) : ts[i] \in Binary /\ EndsOperand(ts[i - 1]) /\ Outer(ts, i)}
Loosest(ts) ==
  LET loose == {i \in Splits(ts) : \A j \in Splits(ts) : Prec(ts[j]) <= Prec(ts[i])}
      left  == {i \in loose : ts[i] \notin RightAssoc}
  IN  IF left # {} THEN Max(left) ELSE Min(loose)

Bad == [type |-> "bad"]
Empty == [type |-> "empty"]
Combined(op, args) ==
  IF \/ \E i \in DOMAIN args : args[i].type \in {"bad", "empty"}
     \/ op = "=" /\ args[1].type # "var"
  THEN Bad ELSE Node(op, args)

(* A call: an empty last argument is no argument, and the arguments of a   *)
(* macro are assigned before its body.                                     *)
CallOf(w, args, macros) ==
  LET given == IF Last(args).type = "empty" THEN Front(args) ELSE args
      defs  == {m \in ToSet(macros) : m.name = w}
  IN  CASE \E i \in DOMAIN given : given[i].type \in {"bad", "empty"} -> Bad
        [] w = "$" -> IF given # << >> /\ given[1].type = "var" THEN Const(0) ELSE Bad
        [] w \notin Funcs /\ defs = {} -> Bad
        [] defs # {} -> Expanded((CHOOSE m \in defs : TRUE).body, given)
        [] OTHER -> Call(w, given)

RECURSIVE Meaning(_, _), Arguments(_, _)
Meaning(ts, macros) ==
  LET k == Loosest(ts)
      n == Len(ts)
      M(a, b) == Meaning(SubSeq(ts, a, b), macros)
  IN  IF ts = << >> THEN Empty
      ELSE IF Splits(ts) # {} THEN Combined(ts[k], <<M(1, k - 1), M(k + 1, n)>>)
      ELSE IF ts[1] \in {"-", "!", "^"} THEN Combined(TokenOf({"unary"}, ts[1]), <<M(2, n)>>)
      ELSE IF n = 1 THEN CASE IsNumber(ts[1]) -> Const(NumberOf(ts[1]))
                           [] IsWord(ts[1]) -> Var(ts[1])
                           [] OTHER -> Bad
      ELSE IF Last(ts) # ")" THEN Bad
      ELSE IF ts[1] = "(" THEN M(2, n - 1)
      ELSE CallOf(ts[1], Arguments(SubSeq(ts, 3, n - 1), macros), macros)
Arguments(ts, macros) ==
  LET commas == {i \in Splits(ts) : ts[i] = ","} IN
  IF commas = {} THEN <<Meaning(ts, macros)>>
  ELSE <<Meaning(SubSeq(ts, 1, Min(commas) - 1), macros)>>
         \o Arguments(SubSeq(ts, Min(commas) + 1, Len(ts)), macros)

(* An empty pair of parentheses that encloses no arguments.  Where it is   *)
(* an operand, operators and commas take what lies below on the stack:     *)
(* 2*f(-()) is compiled as (-2)*f().                                       *)
EmptyGroup(ts) ==
  \E i \in 1..Len(ts) - 1 : ts[i] = "(" /\ ts[i + 1] = ")" /\ (i > 1 => ~IsWord(ts[i - 1]))

-----------------------------------------------------------------------------
TypeOK ==
  /\ status \in {"cleared", "parsing", "compiled", "failed", "refused", "freed"}
  /\ start \in Preambles \cup {<< >>}
  /\ Len(text) <= MaxLexemes
  /\ p.paren \in {"allowed", "expected", "forbidden"}
  /\ ToSet(p.os) \subseteq Unary \cup Binary \cup Words \cup {"(", "{"}
  /\ \A i \in DOMAIN p.as : p.as[i].oslen <= Len(p.os) /\ p.os[p.as[i].oslen] = "{"
  /\ IsExpr(handle) /\ \A i \in DOMAIN p.es : IsExpr(p.es[i])

Known == Tokens(start \o text \o IF look = End THEN << >> ELSE <<look>>)
Outcome == IF status = "compiled" THEN handle ELSE Bad
Intended ==
  LET t == Meaning(Known, p.macros)
  IN  IF t.type = "empty" THEN NoHandle ELSE t
(* What is compiled is what the grammar says of the text, and what is      *)
(* refused at its end has no meaning: the precedences and associativities  *)
(* of the operators, signs, calls, macros and the line ends that separate  *)
(* expressions (expr.h:667-968).  A text with an empty group is left out.  *)
AsGrammar ==
  status \in {"compiled", "refused"} /\ ~EmptyGroup(Known) => Outcome = Intended

(* The operand stack is popped when it is empty only if the text has an    *)
(* empty group (expr.h:904).                                               *)
PopsWhatWasPushed ==
  p.err = "undefined" => EmptyGroup(Known)

(* The program is told of a text that is not compiled what is wrong with   *)
(* it, by sg_expr_err the same as by sg_expr_strerror.  The error that     *)
(* only one of them knows, EXPR_ERR_BAD_CALL, is never made: the lexer     *)
(* refuses such a call before (expr.h:781, 785; sg_expr.c:147, 188).       *)
ErrorsTold ==
  Failed(p) /\ p.err # "undefined" => sg_expr_err = p.err /\ sg_expr_strerror = p.err

(* What is compiled is what the grammar says of the text, the parser pops  *)
(* only what it pushed, and the program is told of an error by both of the *)
(* functions that know it (expr.h:213, 904; sg_expr.c:147, 188).           *)
ParsedAsWritten == TypeOK /\ AsGrammar /\ PopsWhatWasPushed /\ ErrorsTold

(* A text that is calculated at once has the value it has when it is       *)
(* compiled and evaluated, with every variable 0, or one that the order    *)
(* C takes may give; only a function is refused by the one and not by the  *)
(* other (sg_expr.c:231, expr.h:1035).                                     *)
CalcAgrees ==
  status \in {"compiled", "refused"} =>
    LET calc == sg_expr_calc(start \o text) IN
    /\ calc # {} => /\ status = "compiled" /\ ~Calls(handle)
                    /\ calc = {Eval(handle, [w \in DOMAIN vars |-> 0], b).v : b \in BOOLEAN}
    /\ calc = {} /\ status = "compiled" =>
         start \o text = << >> \/ \E i \in DOMAIN Known : Known[i] \in Funcs

(* The compiled expression refers to variables that exist (sg_expr.c:33).  *)
HandleVarsLive == NamesIn(handle) \subseteq DOMAIN vars
=============================================================================
