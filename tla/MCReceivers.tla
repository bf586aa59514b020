----------------------------- MODULE MCReceivers -----------------------------
(***************************************************************************)
(* Receivers for TLC.                                                      *)
(***************************************************************************)
EXTENDS Receivers, FiniteSetsExt, SequencesExt

\* what the server may say in answer to a request
Said(names, n) == BoundedSeq(names, n)

Bads(items) == {{}} \cup {{i} : i \in DOMAIN items}

Plain(items) == {[items |-> items, bad |-> b, lists |-> 0, end |-> e] :
                    b \in Bads(items), e \in {"OK", "ACK"}}

\* a discrete list of two commands, whose second one may fail
Listed(items) ==
    {[items |-> items, bad |-> {}, lists |-> 2,
      end |-> IF Quantify(DOMAIN items, LAMBDA i : items[i] = "list_OK") = 2
              THEN "OK" ELSE "ACK"]}

SomeResponses ==
    UNION {Plain(items) : items \in
              Said({"file", "directory", "playlist", "Last-Modified"}, 3)
              \cup Said({"channel", "message"}, 3)
              \cup Said({"cpos", "Id"}, 3) \cup Said({"updating_db"}, 2)
              \cup Said({"outputid"}, 2) \cup Said({"mount"}, 2) \cup Said({"neighbor"}, 2)}
    \cup UNION {Listed(items) : items \in
        {s \in Said({"file", "Title", "list_OK"}, 5) :
            Quantify(DOMAIN s, LAMBDA i : s[i] = "list_OK") <= 2
            /\ (Quantify(DOMAIN s, LAMBDA i : s[i] = "list_OK") = 2 => Last(s) = "list_OK")}}
=============================================================================
