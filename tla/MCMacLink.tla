----------------------------- MODULE MCMacLink -----------------------------
EXTENDS MacLink
OnePt == {<<"PT">>}
AllCommands == {
    <<"PT", "SEND">>, <<"PT", "PT_SCAN">>, <<"PT", "SCAN">>, <<"PT_SCAN", "PT">>,
    <<"PT_SCAN", "RESTART">>, <<"FT", "RESTART">>, <<"SCAN", "FT", "STOP">>}
=============================================================================
