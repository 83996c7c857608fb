----------------------------- MODULE MCTransport -----------------------------
(* Transport with frames of 12 to 20 bytes, reads of at most 7 and a buffer   *)
(* that an incomplete frame and one read fill.  On each link, noise before or *)
(* between two true frames, then enough bytes to decide every false start.    *)
EXTENDS Transport, SequencesExt

\* A response of twelve bytes, and one whose data look like a start of frame.
Simple == <<254, 239, 12, 8, 171, 187, 3, 243, 240, 85, 13, 10>>
Piege  == <<254, 239, 12, 12, 171, 187, 7, 226, 254, 239, 10, 9, 1, 85, 13, 10>>

\* Lone starts, headers whose length covers a part of the next frame, all of it
\* exactly, or too much; a length too small; an end alone; a damaged frame.
Bruits == {
    <<254>>, <<254, 239, 12>>, <<254, 239, 12, 10>>,
    <<254, 239, 12, 9, 171, 187>>, <<254, 239, 12, 14, 171, 187>>,
    <<254, 239, 10, 16, 171, 170>>, <<254, 239, 12, 40, 171, 187>>,
    <<254, 239, 12, 3, 171, 187, 55>>, <<85, 13, 10>>,
    <<254, 239, 12, 8, 171, 187, 3, 243, 240, 85, 13, 254>> }

Composer(morceaux) ==
    [octets |-> FlattenSeq([i \in DOMAIN morceaux |-> morceaux[i]]),
     trames |-> {<<Len(FlattenSeq(SubSeq(morceaux, 1, i - 1))) + 1,
                   Len(FlattenSeq(SubSeq(morceaux, 1, i)))>> :
                     i \in {j \in DOMAIN morceaux : morceaux[j] \in {Simple, Piege}}}]

MCFlux ==
    {Composer(<<b, Piege, Simple>>) : b \in Bruits} \union
    {Composer(<<Simple, b, Simple, <<0, 0, 0, 0, 0, 0, 0, 0>> >>) : b \in Bruits}
=============================================================================
