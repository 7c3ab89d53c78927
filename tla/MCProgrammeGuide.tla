-------------------------- MODULE MCProgrammeGuide --------------------------
EXTENDS ProgrammeGuide
MCChannels == <<<<2, "First HD">>, <<1, "First">>, <<3, "News">>>>
MCSimilar == {<<"First HD", "First">>, <<"First HD", "HD">>}
=============================================================================
