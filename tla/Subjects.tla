------------------------------ MODULE Subjects ------------------------------
(***************************************************************************)
(* Message subjects and subject patterns, as the brokers match them.       *)
(*                                                                         *)
(* A subject such as "chat.u1.msg" is the sequence <<"chat","u1","msg">> of*)
(* the tokens between its dots; strings.Cut never yields fewer than one.   *)
(* A pattern is a subject in which "*" stands for one token and ">" for    *)
(* all the remaining ones.                                                 *)
(***************************************************************************)
EXTENDS Naturals, Sequences

AnyToken  == "*"
AnySuffix == ">"

IsPattern(subject) ==
    \E i \in DOMAIN subject : subject[i] \in {AnyToken, AnySuffix}

(***************************************************************************)
(* Matches walks both token by token; agree[i] is the verdict of the       *)
(* loop's iteration i, which it reaches with tokens 1 .. i-1 consumed.     *)
(***************************************************************************)
Matches(pattern, subject) ==
    IF ~IsPattern(pattern)
    THEN pattern = subject
    ELSE LET agree[i \in 1..Len(pattern)] ==
               CASE pattern[i] = AnySuffix -> subject[i] # ""
                 [] pattern[i] \notin {AnyToken, AnySuffix, subject[i]} -> FALSE
                 [] OTHER ->
                      IF i = Len(pattern) \/ i = Len(subject)
                      THEN Len(pattern) = Len(subject)
                      ELSE agree[i + 1]
         IN  agree[1]

(* What may be filled into a subject as one token.  Of the reserved        *)
(* characters the models use the two wildcards.                            *)
IsToken(v) == v \notin {"", AnyToken, AnySuffix}
=============================================================================
