--------------------------- MODULE MCDockerRefresh ---------------------------
EXTENDS DockerRefresh
=============================================================================
