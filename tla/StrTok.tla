------------------------------- MODULE StrTok -------------------------------
(***************************************************************************)
(* strtok(3) as the server uses it.  The text of a message is a sequence   *)
(* of commands, the pieces between '@', and a command is a nonempty        *)
(* sequence of words, the pieces between blanks; its first word is the     *)
(* letter that selects the operation.  The library keeps ONE cursor for    *)
(* the whole process: what is left of the last buffer handed to it.  The   *)
(* same cursor is advanced by either delimiter, so a caller that asks for  *)
(* the next '@' piece gets whatever the last caller left, in any buffer.   *)
(*                                                                         *)
(* rest denotes the text behind the cursor.                                *)
(***************************************************************************)
EXTENDS Sequences

CONSTANT NULL       \* the null pointer strtok returns at the end of a text

NoCommand == <<>>   \* the same null pointer where a command is expected

Texts(words) == Seq(Seq(words) \ {<<>>})

\* strtok(_, "@"): the piece up to the next '@', and what is left after it.
NextCommand(rest)  == IF rest = <<>> THEN NoCommand ELSE Head(rest)
AfterCommand(rest) == IF rest = <<>> THEN <<>> ELSE Tail(rest)

\* strtok(_, " "): one word.  It does not stop at '@': at the end of a
\* command the next word is the first one of the next command.
NextWord(rest) == IF rest = <<>> THEN NULL ELSE Head(Head(rest))

AfterWord(rest) ==
  IF rest = <<>> THEN <<>>
  ELSE IF Len(Head(rest)) = 1 THEN Tail(rest)
  ELSE <<Tail(Head(rest))>> \o Tail(rest)

\* The copy of a command's arguments that is tokenised anew, strcpy(val, msg + 1).
Arguments(command) == IF Len(command) = 1 THEN <<>> ELSE <<Tail(command)>>
=============================================================================
