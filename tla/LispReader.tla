----------------------------- MODULE LispReader ------------------------------
(***************************************************************************)
(* A file is read, and its first expression parsed, as every tool here     *)
(* does that takes a file: transpile_tokenizer.cpp.                        *)
(***************************************************************************)
EXTENDS LispText

CONSTANT Files   \* what may be read

ASSUME FilesAssumption == \A f \in Files : IsText(f)

VARIABLES file, ast

Unread == <<"unread">>
Nothing == <<"nothing">>

ReaderInit == file \in Files /\ ast = Unread

ParseFile ==
  /\ ast = Unread
  /\ LET reading == Parse(file.characters) IN ast' = IF reading.thrown THEN Nothing ELSE reading.tree
  /\ UNCHANGED file

ReaderSpec == ReaderInit /\ [][ParseFile]_<<file, ast>>

\* What is read is what was written, whatever stands between the words and in whatever
\* radix the numbers are; a text is refused when a parenthesis, the end of a string or
\* an item is missing, or when a number is none, before the end of what is read.
ReadsWhatWasWritten ==
  ast # Unread =>
    /\ ast = IF IsRefused(file, 1) THEN Nothing ELSE TreeOf(file, 1)
    /\ LET all == ParseAll(file.characters) IN
       IF AllRefused(file) THEN all.thrown ELSE ~all.thrown /\ all.tree = AllOf(file)
=============================================================================
