------------------------------- MODULE Utils -------------------------------
(* The string functions of sg_utils.c.  A string is a sequence of          *)
(* characters, of which those matter that the functions look for; "nl"     *)
(* stands for a control character.                                         *)
EXTENDS Naturals, Sequences

CONSTANTS MaxPath, MaxName   \* bounds on the lengths of the two arguments

ASSUME UtilsAssumption == MaxPath \in Nat /\ MaxName \in Nat

VARIABLE args   \* the arguments of a call

Chars == {"/", "\\", "a", "A", "=", "nl"}
Strings(n) == UNION {[1..k -> Chars] : k \in 0..n}

(* The first n characters of s: what snprintf leaves in n + 1 bytes.       *)
Cut(s, n) == SubSeq(s, 1, IF n < Len(s) THEN n ELSE Len(s))
LastChar(s) == s[Len(s)]
Drop(s, n) == SubSeq(s, n + 1, Len(s))

JoinSize(a, b, sep) == Len(a) + Len(b) + (IF sep THEN 1 ELSE 0) + 1

(* sg__strjoin: b after a, with the separator between them unless a is     *)
(* empty or ends with it, or b is empty.                                   *)
sg__strjoin(sep, a, b) ==
  IF a = << >> \/ LastChar(a) = sep THEN Cut(a \o b, JoinSize(a, b, FALSE) - 1)
  ELSE IF b = << >> THEN a
  ELSE Cut(a \o <<sep>> \o b, JoinSize(a, b, TRUE) - 1)

(* What follows the last separator (with glibc it is the C library's).     *)
IsSep(c) == c \in {"/", "\\"}
sg__basename(path) ==
  LET seps == {i \in DOMAIN path : IsSep(path[i])}
  IN  IF seps = {} THEN path
      ELSE Drop(path, CHOOSE i \in seps : \A j \in seps : j <= i)

(* sg_tmpdir: the variable of the environment without its last "/".        *)
sg_tmpdir(env) == IF Len(env) > 1 /\ LastChar(env) = "/" THEN Cut(env, Len(env) - 1) ELSE env

EntryEnd(path, start) ==
  LET ends == {i \in start..Len(path) - 1 : path[i + 1] = "/"}
  IN  IF ends = {} THEN Len(path) ELSE CHOOSE i \in ends : \A j \in ends : i <= j

(* sg_extract_entrypoint: "/" and the first part of the path.              *)
sg_extract_entrypoint(path) ==
  LET start == CHOOSE i \in 0..Len(path) :
                 /\ i < Len(path) => path[i + 1] # "/"
                 /\ \A j \in 1..i : path[j] = "/"
      len == (IF EntryEnd(path, start) < start THEN start ELSE EntryEnd(path, start)) - start + 1
  IN  Cut(<<"/">> \o Drop(path, start), len)

tolower(c) == IF c = "A" THEN "a" ELSE c
sg__toasciilower(s) == [i \in DOMAIN s |-> tolower(s[i])]

CookieNameChars == {"a", "A"}
sg__is_cookie_name(s) == \A i \in DOMAIN s : s[i] \in CookieNameChars
sg__is_cookie_val(s) == \A i \in DOMAIN s : s[i] # "nl"

(* sg_httpres_set_cookie: the Set-Cookie header of an accepted cookie.     *)
CookieHeader(name, val) == name \o <<"=">> \o val

(* A buffer: the bytes stored in it, "nul" ends a text.                    *)
Nul == "nul"
TextIn(cells) ==
  SubSeq(cells, 1, (CHOOSE k \in DOMAIN cells :
                      cells[k] = Nul /\ \A j \in 1..k - 1 : cells[j] # Nul) - 1)

(* strerror_r answers with a text of its own or with one it put, as far as *)
(* it fits, in the n bytes it was given.                                   *)
strerror_r(msg, n) == {msg} \cup IF n > 0 THEN {Cut(msg, n - 1)} ELSE {}

(* sg_strerror of glibc: errlen - 1 bytes are copied from that text, and   *)
(* from what follows it in memory, and the last byte ends them.            *)
sg_strerror(res, errlen) ==
  [k \in 1..errlen |-> IF k = errlen THEN Nul
                       ELSE IF k <= Len(res) THEN res[k] ELSE IF k = Len(res) + 1 THEN Nul ELSE "?"]

(* sg_ip: inet_ntop stores the address if it fits, and the prefix of an    *)
(* IPv4 address in IPv6 is taken off by moving the rest over it.           *)
V4Mapped == <<":", "f", ":">>   \* "::ffff:"
inet_ntop(addr, size) == IF Len(addr) < size THEN Append(addr, Nul) ELSE << >>
MovedBytes(rest) == Len(rest) + 1
sg_ip(addr, mapped, size) ==
  LET b == inet_ntop(IF mapped THEN V4Mapped \o addr ELSE addr, size)
      n == Len(V4Mapped)
  IN  IF b = << >> \/ ~mapped \/ size <= n THEN b
      ELSE [k \in DOMAIN b |-> IF k <= MovedBytes(addr) THEN b[k + n] ELSE b[k]]

-----------------------------------------------------------------------------
Path == args[1]
Name == args[2]
Prefix(s, t) == Len(s) <= Len(t) /\ Cut(t, Len(s)) = s

(* A path that is joined from two keeps every character of both and gets   *)
(* at most one separator, between them; the name can be taken off again,   *)
(* also in a directory for temporary files (sg_utils.c:158, 132, 363).     *)
JoinedWhole ==
  LET s == sg__strjoin("/", Path, Name)
      plain == \A i \in DOMAIN Name : Name[i] \notin {"/", "\\"}
  IN  /\ Len(s) - Len(Path) - Len(Name) \in 0..1
      /\ Prefix(Path, s) /\ Drop(s, Len(s) - Len(Name)) = Name
      /\ plain /\ Name # << >> =>
           /\ Path # << >> /\ LastChar(Path) \notin {"\\"} => sg__basename(s) = Name
           /\ Path # << >> => sg__basename(sg__strjoin("/", sg_tmpdir(Path), Name)) = Name

(* What follows the entry-point in a path does not change it, nor do       *)
(* slashes before it, and it has none but its first (sg_utils.c:336).      *)
EntrypointCut ==
  LET e == sg_extract_entrypoint(Path) IN
  /\ sg_extract_entrypoint(e) = e /\ \A i \in 2..Len(e) : e[i] # "/"
  /\ sg_extract_entrypoint(<<"/">> \o Path) = e
  /\ Len(e) > 1 => sg_extract_entrypoint(Path \o <<"/">> \o Name) = e

(* Names of a map that differ in case only are one key, and no others.     *)
(* (sg_utils.c:150).                                                       *)
KeysFold ==
  Len(Path) = Len(Name) =>
    (sg__toasciilower(Path) = sg__toasciilower(Name) <=>
       \A i \in DOMAIN Path : Path[i] = Name[i] \/ {Path[i], Name[i]} = {"a", "A"})

(* A cookie that is accepted is one header line, whose name ends at its    *)
(* first "=" (sg_utils.c:187, 196; sg_httpres.c:312).                      *)
CookieParts ==
  sg__is_cookie_name(Path) /\ sg__is_cookie_val(Name) =>
    LET h == CookieHeader(Path, Name) IN
    /\ \A i \in DOMAIN h : h[i] # "nl"
    /\ \A i \in DOMAIN h : h[i] = "=" /\ (\A j \in 1..i - 1 : h[j] # "=") => Cut(h, i - 1) = Path

(* An error message is a text that ends inside the buffer: the message, or *)
(* as much of it as two bytes less hold (sg_utils.c:301).                  *)
ErrorText ==
  \A errlen \in 1..MaxPath + 2 : \A res \in strerror_r(Path, errlen - 1) :
    LET cells == sg_strerror(res, errlen)
        t == TextIn(cells)
    IN  /\ \E k \in DOMAIN cells : cells[k] = Nul
        /\ Prefix(t, Path) /\ (Len(t) = Len(Path) \/ Len(t) + 2 >= errlen)

(* An address is told without the prefix of an IPv4 address, or not at all *)
(* when it does not fit with it (sg_utils.c:420).                          *)
IpTold ==
  \A mapped \in BOOLEAN, size \in 0..MaxPath + 4 :
    LET b == sg_ip(Path, mapped, size)
    IN  b = << >> \/ TextIn(b) = Path
=============================================================================
