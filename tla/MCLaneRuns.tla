----------------------------- MODULE MCLaneRuns -----------------------------
EXTENDS LaneRuns
=============================================================================
