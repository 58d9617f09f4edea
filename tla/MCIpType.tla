------------------------------- MODULE MCIpType -------------------------------
EXTENDS IpType, TLC

MCIps == {"pub", "lan"}
MCClass == [pub |-> "global", lan |-> "private"]
MCOrgs ==
  {NoText, <<" ">>, <<"acme">>, <<"ghost">>, <<"shaws">>, <<"google">>, GoogleFiber,
   <<"google", "-", "fiber">>, <<"google", " ", "fiber", " ", "mobile">>,
   <<"data", " ", "center">>, <<"mobile", " ", "cloud">>, <<"oracle", " ", "cloud">>,
   <<"bank", " ", "dsl">>}
MCNames == {NoText, <<"host", ".", "dsl">>, <<"lte">>}
MCSymmetry == Permutations(Requests)
=============================================================================
