--------------------------- MODULE MCAttachments ----------------------------
(* Instances of Attachments for TLC.                                       *)
EXTENDS Attachments, TLC

\* Answers of up to three files, named a and b by turns: photos alone and in an
\* album, with a voice, a document or a sticker that makes the album impossible.
Item(i, shape) == [kind |-> shape[1], group |-> shape[2],
                   name |-> IF i = 2 THEN "b" ELSE "a",
                   caption |-> IF i = 1 THEN None ELSE i]
Alone == <<"photo", None>>
Album == <<"photo", "g">>
Voice == <<"voice", "g">>
Papers == <<"document", "g">>
Sticker == <<"sticker", "g">>
FewAnswers ==
  {[i \in DOMAIN s |-> Item(i, s[i])] :
     s \in {<<Alone>>, <<Voice>>, <<Album, Album>>, <<Voice, Album>>, <<Alone, Alone>>,
            <<Album, Papers>>, <<Album, Sticker>>, <<Album, Alone, Album>>,
            <<Album, Album, Album>>}}

\* Messages of two chats with the same number.
TwoChats == {[chat |-> "c", id |-> 1, kinds |-> <<"photo", "voice">>],
             [chat |-> "d", id |-> 1, kinds |-> <<"photo">>]}

Symmetry == Permutations(Workers)
=============================================================================
