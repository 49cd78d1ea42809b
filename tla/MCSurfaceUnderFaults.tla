------------------------ MODULE MCSurfaceUnderFaults ------------------------
EXTENDS SurfaceUnderFaults
MCArmings == {<<"timeout", "until_cleared">>, <<"session_expired", "once">>,
              <<"maintenance_notice", "once">>}
=============================================================================
