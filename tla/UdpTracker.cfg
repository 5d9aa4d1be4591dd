\* The two timeouts announce_url() gives, and one more.
CONSTANT Rounds = 3
SPECIFICATION UdpSpec
INVARIANTS
    AnswerIsOurs
    LossSurvived
