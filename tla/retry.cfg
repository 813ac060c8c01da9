SPECIFICATION RetrySpec
CONSTANT MaxRetries = 3
CHECK_DEADLOCK FALSE
INVARIANT RunsAtMost OneAttemptIsKept
