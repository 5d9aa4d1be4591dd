------------------------------ MODULE MCConnection ------------------------------
(* One message of every form, and frames that are no message: an unknown id, *)
(* a Choke with a payload, a Have that is short, a Request that is long, an  *)
(* Extended without an id, and one that is too long.                         *)
EXTENDS Connection

Good(m) == [bytes |-> Frame(m), means |-> m]
NoMessage(bytes) == [bytes |-> bytes, means |-> Bad]

Have == Good(Message(4, <<258>>, <<>>))

MCScripts ==
    { <<Have, Good(KeepAlive), Good(Message(7, <<1, 2>>, <<9>>))>>,
      <<Good(Message(6, <<1, 2, 3>>, <<>>)), Good(Message(1, <<>>, <<>>))>>,
      <<Good(Message(5, <<>>, <<128>>)), Good(Message(8, <<1, 2, 3>>, <<>>))>>,
      <<Good(Message(9, <<>>, <<1, 2>>)), Good(Message(20, <<>>, <<1, 7>>))>>,
      <<Have, NoMessage(<<0, 0, 0, 1, 99>>)>>,
      <<Have, NoMessage(<<0, 0, 0, 2, 0, 0>>)>>,
      <<Have, NoMessage(<<0, 0, 0, 3, 4, 0, 0>>)>>,
      <<Have, NoMessage(<<0, 0, 0, 14>> \o Body(Message(6, <<1, 2, 3>>, <<4>>)))>>,
      <<Have, NoMessage(<<0, 0, 0, 1, 20>>)>>,
      <<Have, NoMessage(<<0, 16, 0, 1, 0>>)>> }
=============================================================================
