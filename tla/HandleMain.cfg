\* main() owns a handle around four threads; every step of start() can fail.
CONSTANTS
    u1 = u1
    u2 = u2
    u3 = u3
    u4 = u4
    Main = Main
    None = None
    Users = {Main, u1, u2, u3, u4}
    HasUring = TRUE
    MainHolds = TRUE
    CanFail = {"make", "ring", "epoll", "uring"}
SPECIFICATION Spec
INVARIANTS
    HandleIsLive
    CountSafe
CHECK_DEADLOCK FALSE
