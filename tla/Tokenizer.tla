------------------------------ MODULE Tokenizer ------------------------------
(***************************************************************************)
(* hw-shell/tokenizer.c: tokenize() walks along a command line once, with  *)
(* a quoting mode and one buffer for the token it is in.                   *)
(***************************************************************************)
EXTENDS Naturals, Sequences, FiniteSets

CONSTANTS MaxLine,   \* length of a command line
          NMax       \* size of the token buffer

VARIABLES line, i, mode, token, tokens, aborted
tokenVars == <<line, i, mode, token, tokens, aborted>>

Chars == {"a", "space", "squote", "dquote", "backslash"}

TokenizerInit ==
  /\ line \in UNION {[1..n -> Chars] : n \in 0..MaxLine}
  /\ i = 1 /\ mode = "normal" /\ token = <<>> /\ tokens = <<>> /\ aborted = FALSE

(* copy_word() and vector_push(), for a token that has a character.        *)
Pushed == IF token = <<>> THEN tokens ELSE Append(tokens, token)

(* Mutant: a backslash at the end of the line escapes the terminator.      *)
EscapePastEnd == /\ token' = Append(token, IF i + 1 <= Len(line) THEN line[i + 1] ELSE "nul")
                 /\ i' = i + 2

(* A backslash, in every mode: the next character is taken as it is.       *)
Escape ==
  /\ token' = IF i + 1 <= Len(line) THEN Append(token, line[i + 1]) ELSE token
  /\ i' = IF i + 1 <= Len(line) THEN i + 2 ELSE i + 1

Take(c) == token' = Append(token, c) /\ i' = i + 1
Skip == UNCHANGED token /\ i' = i + 1

Normal(c) ==
  /\ mode = "normal"
  /\ \/ c \in {"squote", "dquote"} /\ mode' = c /\ Skip /\ UNCHANGED tokens
     \/ c = "backslash" /\ Escape /\ UNCHANGED <<mode, tokens>>
     \/ c = "space" /\ tokens' = Pushed /\ token' = <<>> /\ i' = i + 1 /\ UNCHANGED mode
     \/ c = "a" /\ Take(c) /\ UNCHANGED <<mode, tokens>>

Quoted(c) ==
  /\ mode # "normal"
  /\ \/ c = mode /\ mode' = "normal" /\ Skip
     \/ c = "backslash" /\ Escape /\ UNCHANGED mode
     \/ c \notin {mode, "backslash"} /\ Take(c) /\ UNCHANGED mode
  /\ UNCHANGED tokens

(* One round of the loop, with the check that ends it.                     *)
TokenizeChar ==
  /\ i <= Len(line) /\ ~aborted
  /\ Normal(line[i]) \/ Quoted(line[i])
  /\ aborted' = (Len(token') + 1 >= NMax)
  /\ UNCHANGED line

TokenizeEnd ==
  /\ i = Len(line) + 1 /\ ~aborted
  /\ tokens' = Pushed /\ token' = <<>> /\ i' = i + 1
  /\ UNCHANGED <<line, mode, aborted>>

TokenizerNext == TokenizeChar \/ TokenizeEnd

(* tokens_get_length() and tokens_get_token()                              *)
TokensGetLength == Len(tokens)
TokensGetToken(n) == IF n >= Len(tokens) THEN "NULL" ELSE tokens[n + 1]

-----------------------------------------------------------------------------
(* What the characters of a line mean, whatever the loop does: a character *)
(* is escaped when an odd number of backslashes stands before it, and a    *)
(* place is quoted when the quotes that count before it do not pair up.    *)
Run(n) == Cardinality({m \in 1..n - 1 : \A k \in m..n - 1 : line[k] = "backslash"})
Escaped(n) == Run(n) % 2 = 1

QuoteAt ==
  LET q[n \in 1..MaxLine + 1] ==
        IF n = 1 \/ n > Len(line) + 1 THEN "none"
        ELSE LET c == line[n - 1]
             IN  IF Escaped(n - 1) \/ c \notin {"squote", "dquote"} THEN q[n - 1]
                 ELSE IF q[n - 1] = "none" THEN c
                 ELSE IF q[n - 1] = c THEN "none" ELSE q[n - 1]
  IN  q

Separator(n) == line[n] = "space" /\ ~Escaped(n) /\ QuoteAt[n] = "none"
Syntax(n) == /\ ~Escaped(n)
             /\ \/ line[n] = "backslash"
                \/ line[n] \in {"squote", "dquote"} /\ QuoteAt[n] \in {"none", line[n]}
Content == {n \in DOMAIN line : ~Syntax(n) /\ ~Separator(n)}
Together(m, n) == \A k \in m..n : ~Separator(k)
FirstsOf == {n \in Content : \A m \in Content : m < n => ~Together(m, n)}
Before(S, n) == Cardinality({m \in S : m < n})

(* tokenize(): a line becomes one token for every stretch between          *)
(* separators, spaces outside quotes and escapes, that has a character     *)
(* left; the characters are those that are not quotes or backslashes in    *)
(* their function, in order; and the buffer of the token is never left.    *)
TokensRight ==
  /\ Len(token) < NMax
  /\ i = Len(line) + 2 =>
       /\ TokensGetLength = Cardinality(FirstsOf)
       /\ \A n \in Content :
            LET f == CHOOSE m \in FirstsOf : m <= n /\ Together(m, n)
                t == TokensGetToken(Before(FirstsOf, f))
                p == Before({k \in Content : k >= f}, n) + 1
            IN  /\ p <= Len(t) /\ t[p] = line[n]
                /\ Len(t) = Cardinality({k \in Content : k >= f /\ Together(f, k)})
=============================================================================
