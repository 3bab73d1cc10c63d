------------------------------- MODULE Routes -------------------------------
(***************************************************************************)
(* Who may ask for what: every route of the API with the permission it     *)
(* requires and the rows it works on, and what the roles are granted.      *)
(*                                                                         *)
(* The scope of a route is the condition its service puts on the row:      *)
(*   own      rows of the caller                                           *)
(*   verdict  rows of the caller, on a permission customers do not have    *)
(*   owner    rows of a store the caller owns                              *)
(*   member   rows of a store the caller owns or is an active member of    *)
(*   invited  an invitation to the caller                                  *)
(*   new      none: the caller becomes the owner of a new store            *)
(*   any      rows of every store                                          *)
(*   token    what a secret or a password names                            *)
(*   public   published stores and products                                *)
(* "none" is no permission.                                                *)
(***************************************************************************)

Reads(scope, needs, ops) ==
    {[op |-> o, scope |-> scope, needs |-> needs, does |-> "reads"] : o \in ops}
Writes(scope, needs, ops) ==
    {[op |-> o, scope |-> scope, needs |-> needs, does |-> "writes"] : o \in ops}

-----------------------------------------------------------------------------
AuthRoutes ==
         Writes("own", "none", {"logout", "logout_all"})
    \cup Writes("token", "none", {"login", "refresh"})

AccountRoutes ==
         Writes("own", "none", {"change_password"})
    \cup Writes("token", "none",
             {"forgot_password", "reset_password", "verify_email",
             "resend_email_verification"})

SessionRoutes ==
         Reads("own", "none", {"list_sessions", "current_session"})
    \cup Writes("own", "none",
             {"rename_session", "revoke_session", "revoke_other_sessions"})

NotificationRoutes ==
         Reads("own", "notification:preferences", {"get_preferences"})
    \cup Reads("own", "notification:view", {"list_notifications", "get_notification"})
    \cup Writes("own", "notification:preferences", {"update_preferences"})
    \cup Writes("own", "notification:test", {"send_test_notification"})
    \cup Writes("own", "notification:update", {"mark_notification_read"})

CartRoutes ==
         Reads("own", "cart:view", {"list_carts", "get_cart"})
    \cup Writes("own", "cart:create", {"create_cart"})

CartItemRoutes ==
    Writes("own", "cart:update", {"add_cart_item", "update_cart_item", "remove_cart_item"})

CartEndRoutes ==
         Reads("own", "cart:view", {"cart_summary"})
    \cup Writes("own", "cart:delete", {"delete_cart"})

CheckoutRoutes ==
         Reads("own", "checkout:view",
             {"list_checkouts", "get_checkout", "checkout_summary"})
    \cup Writes("own", "checkout:confirm", {"confirm_checkout"})
    \cup Writes("own", "checkout:create", {"create_checkout"})
    \cup Writes("own", "checkout:update", {"cancel_checkout"})

OrderRoutes ==
         Reads("own", "order:view", {"list_orders", "get_order", "order_summary"})
    \cup Writes("own", "order:confirm", {"confirm_order"})
    \cup Writes("own", "order:create", {"create_order"})
    \cup Writes("own", "order:update", {"cancel_order"})

PaymentRoutes ==
         Reads("own", "payment:view", {"list_payments", "get_payment"})
    \cup Writes("own", "payment:create", {"create_payment"})

PaymentStepRoutes ==
         Reads("own", "payment:view", {"payment_status"})
    \cup Writes("own", "payment:cancel", {"cancel_payment"})
    \cup Writes("own", "payment:capture", {"capture_payment"})
    \cup Writes("own", "payment:update", {"authorize_payment"})

ReservationRoutes ==
         Reads("own", "reservation:view",
             {"list_reservations", "get_reservation", "reservation_status"})
    \cup Writes("own", "reservation:consume", {"consume_reservation"})
    \cup Writes("own", "reservation:create", {"create_reservation"})
    \cup Writes("own", "reservation:release", {"release_reservation"})

ShipmentRoutes ==
         Reads("own", "shipment:view", {"list_shipments", "get_shipment"})
    \cup Writes("own", "shipment:create", {"create_shipment"})

ShipmentStepRoutes ==
         Reads("own", "shipment:view", {"shipment_tracking"})
    \cup Writes("own", "shipment:deliver", {"deliver_shipment"})
    \cup Writes("own", "shipment:ship", {"ship_shipment"})
    \cup Writes("own", "shipment:update", {"pack_shipment", "cancel_shipment"})

ReturnRoutes ==
         Reads("own", "return:view", {"list_returns", "get_return"})
    \cup Writes("own", "return:create", {"create_return"})
    \cup Writes("own", "return:update", {"update_return"})

ReturnStepRoutes ==
         Reads("own", "return:view", {"return_summary"})
    \cup Writes("own", "return:update", {"cancel_return"})
    \cup Writes("verdict", "return:approve", {"approve_return"})
    \cup Writes("verdict", "return:inspect", {"inspect_return"})
    \cup Writes("verdict", "return:receive", {"receive_return"})
    \cup Writes("verdict", "return:reject", {"reject_return"})

RefundRoutes ==
         Reads("own", "refund:view", {"list_refunds", "get_refund", "refund_status"})
    \cup Writes("own", "refund:create", {"create_refund"})
    \cup Writes("verdict", "refund:process", {"process_refund"})

CouponUseRoutes ==
    Reads("own", "coupon:redeem", {"evaluate_promotions"})

StoreRoutes ==
         Writes("new", "store:create", {"create_store"})
    \cup Reads("owner", "store:view", {"list_stores", "get_store"})
    \cup Writes("owner", "store:delete", {"delete_store"})
    \cup Writes("owner", "store:update", {"update_store"})

VerificationRoutes ==
         Writes("any", "admin:access",
             {"review_store_verification", "approve_store_verification",
             "reject_store_verification"})
    \cup Reads("owner", "store:view", {"get_store_verification"})
    \cup Writes("owner", "store:update", {"submit_store_verification"})

StoreMediaRoutes ==
         Reads("owner", "store:view", {"list_store_media"})
    \cup Writes("owner", "store:update",
             {"upload_store_logo", "upload_store_banner", "upload_store_gallery"})

StoreMediaItemRoutes ==
         Reads("owner", "store:view", {"get_store_media"})
    \cup Writes("owner", "store:delete", {"delete_store_media"})
    \cup Writes("owner", "store:update", {"reorder_store_gallery", "update_store_media"})

HoursRoutes ==
         Reads("owner", "store:view",
             {"list_store_hours", "get_today_store_hours", "get_store_status"})
    \cup Writes("owner", "store:update",
             {"create_store_hours", "update_store_hours", "delete_store_hours"})

\* No permission is required of the owner; an administrator reads any store.
AnalyticsRoutes ==
    LET ops == {"get_store_analytics", "get_store_analytics_summary",
                "list_store_daily_metrics", "get_store_storage"}
    IN  Reads("owner", "none", ops) \cup Reads("any", "admin:access", ops)

MembershipRoutes ==
         Reads("owner", "store:view", {"list_store_members"})
    \cup Writes("owner", "store:delete", {"remove_store_member"})
    \cup Writes("owner", "store:update", {"invite_store_member", "update_store_member"})

InvitationRoutes ==
    Writes("invited", "store:view", {"accept_store_invitation", "decline_store_invitation"})

CatalogRoutes ==
         Reads("owner", "catalog:view", {"list_catalogs", "get_catalog"})
    \cup Writes("owner", "catalog:create", {"create_catalog"})
    \cup Writes("owner", "catalog:update", {"update_catalog", "delete_catalog"})

AttributeRoutes ==
         Reads("owner", "attribute:view", {"list_attributes"})
    \cup Writes("owner", "attribute:create", {"create_attribute"})
    \cup Writes("owner", "attribute:update", {"update_attribute", "delete_attribute"})

AttributeValueRoutes ==
    Writes("owner", "attribute:update",
        {"create_attribute_value", "update_attribute_value", "delete_attribute_value"})

VariantAttributeRoutes ==
         Reads("owner", "attribute:view", {"list_variant_attributes"})
    \cup Writes("owner", "attribute:assign",
             {"assign_variant_attribute", "remove_variant_attribute"})

PriceListRoutes ==
         Reads("owner", "price:list:view", {"list_price_lists", "get_price_list"})
    \cup Writes("owner", "price:list:create", {"create_price_list"})
    \cup Writes("owner", "price:list:update", {"update_price_list", "delete_price_list"})

PriceListPriceRoutes ==
         Reads("owner", "price:resolve", {"resolve_price"})
    \cup Writes("owner", "price:list:update", {"assign_price", "unassign_price"})

PromotionRoutes ==
         Reads("owner", "promotion:view", {"list_promotions"})
    \cup Writes("owner", "promotion:create", {"create_promotion"})

PromotionStepRoutes ==
         Reads("owner", "promotion:view", {"get_promotion"})
    \cup Writes("owner", "promotion:activate", {"activate_promotion"})
    \cup Writes("owner", "promotion:archive", {"archive_promotion"})
    \cup Writes("owner", "promotion:update", {"update_promotion", "delete_promotion"})

CouponRoutes ==
         Reads("owner", "coupon:view", {"list_coupons"})
    \cup Writes("owner", "coupon:create", {"create_coupon"})
    \cup Writes("owner", "coupon:update", {"update_coupon", "delete_coupon"})

CategoryRoutes ==
         Reads("member", "catalog:view", {"list_categories", "get_category"})
    \cup Writes("member", "catalog:update",
             {"create_category", "update_category", "delete_category",
             "assign_category", "remove_category"})

CollectionRoutes ==
         Reads("member", "catalog:view", {"list_collections", "get_collection"})
    \cup Writes("member", "catalog:update",
             {"create_collection", "update_collection", "delete_collection",
             "assign_collection", "remove_collection", "reorder_collection"})

ProductRoutes ==
         Reads("member", "catalog:view", {"list_products", "get_product"})
    \cup Writes("member", "catalog:update",
             {"create_product", "update_product", "delete_product"})

VariantRoutes ==
         Reads("member", "catalog:view", {"list_variants"})
    \cup Writes("member", "catalog:update",
             {"create_variant", "update_variant", "delete_variant"})

ProductMediaRoutes ==
         Reads("member", "catalog:view", {"list_media", "get_media"})
    \cup Writes("member", "catalog:update",
             {"upload_primary", "upload_gallery", "upload_video", "delete_media"})

PriceRoutes ==
         Reads("member", "price:view", {"list_prices", "get_price"})
    \cup Writes("member", "price:create", {"create_price"})
    \cup Writes("member", "price:update", {"update_price", "delete_price"})

ImportRoutes ==
    Writes("member", "catalog:update",
        {"create_catalog_import", "upload_spreadsheet", "upload_import_media",
        "validate_catalog_import", "commit_catalog_import"})

ImportReadRoutes ==
    Reads("member", "catalog:view",
        {"list_catalog_imports", "get_catalog_import", "list_catalog_import_rows",
        "list_catalog_import_errors"})

InventoryRoutes ==
         Reads("member", "catalog:view", {"list_inventory"})
    \cup Reads("member", "inventory:view", {"list_inventory_movements"})
    \cup Writes("member", "catalog:update", {"create_inventory"})

StockRoutes ==
         Reads("member", "catalog:view", {"get_inventory"})
    \cup Reads("member", "inventory:view", {"list_low_stock", "list_out_of_stock"})
    \cup Writes("member", "inventory:update", {"adjust_inventory", "reconcile_inventory"})

InventoryItemRoutes ==
         Reads("member", "inventory:view", {"list_item_movements"})
    \cup Writes("member", "catalog:update", {"update_inventory", "delete_inventory"})

OperationsRoutes ==
    Reads("member", "inventory:view",
        {"operations_summary", "operational_orders", "operational_shipments"})

SearchRoutes ==
         Reads("public", "none", {"search_stores", "autocomplete_stores"})
    \cup Writes("public", "system:manage", {"rebuild_stores"})

AllRoutes ==
    UNION {AuthRoutes, AccountRoutes, SessionRoutes, NotificationRoutes, CartRoutes,
           CartItemRoutes, CartEndRoutes, CheckoutRoutes, OrderRoutes, PaymentRoutes,
           PaymentStepRoutes, ReservationRoutes, ShipmentRoutes, ShipmentStepRoutes,
           ReturnRoutes, ReturnStepRoutes, RefundRoutes, CouponUseRoutes, StoreRoutes,
           VerificationRoutes, StoreMediaRoutes, StoreMediaItemRoutes, HoursRoutes,
           AnalyticsRoutes, MembershipRoutes, InvitationRoutes, CatalogRoutes,
           AttributeRoutes, AttributeValueRoutes, VariantAttributeRoutes, PriceListRoutes,
           PriceListPriceRoutes, PromotionRoutes, PromotionStepRoutes, CouponRoutes,
           CategoryRoutes, CollectionRoutes, ProductRoutes, VariantRoutes,
           ProductMediaRoutes, PriceRoutes, ImportRoutes, ImportReadRoutes,
           InventoryRoutes, StockRoutes, InventoryItemRoutes, OperationsRoutes,
           SearchRoutes}

-----------------------------------------------------------------------------
(* The grants, migration by migration.                                       *)

RoleNames == {"super_admin", "admin", "store_owner", "store_staff", "customer", "guest"}
AccountRoles == RoleNames \ {"guest"}
Shoppers == {"customer", "guest"}

\* One migration: the same permissions for each of some roles.
GrantTo(roles, rights) == [o \in RoleNames |-> IF o \in roles THEN rights ELSE {}]

SeedGrants ==
    [super_admin |->
        {"store:create", "store:view", "store:update", "store:delete",
         "catalog:create", "catalog:update", "catalog:view",
         "inventory:view", "inventory:update",
         "reservation:create", "reservation:cancel", "admin:access", "system:manage"},
     admin |-> {"admin:access"},
     store_owner |->
        {"store:view", "store:update", "catalog:create", "catalog:update", "catalog:view",
         "inventory:view", "inventory:update"},
     store_staff |-> {"catalog:update", "catalog:view", "inventory:view", "inventory:update"},
     customer |-> {"store:view", "catalog:view", "inventory:view",
                   "reservation:create", "reservation:cancel"},
     guest |-> {"store:view", "catalog:view", "inventory:view"}]

PriceGrants ==
    [GrantTo({"super_admin", "store_owner"}, {"price:create", "price:view", "price:update"})
     EXCEPT !["store_staff"] = {"price:view", "price:update"}]

PriceListGrants ==
    [GrantTo({"super_admin", "store_owner"},
             {"price:list:create", "price:list:view", "price:list:update", "price:resolve"})
     EXCEPT !["store_staff"] = {"price:list:view", "price:list:update", "price:resolve"}]

AttributeGrants ==
    [GrantTo({"super_admin", "store_owner"},
             {"attribute:create", "attribute:view", "attribute:update", "attribute:assign"})
     EXCEPT !["store_staff"] = {"attribute:view", "attribute:update", "attribute:assign"}]

CartGrants ==
    GrantTo(AccountRoles, {"cart:create", "cart:view", "cart:update", "cart:delete"})
CheckoutGrants ==
    GrantTo(AccountRoles,
            {"checkout:create", "checkout:view", "checkout:update", "checkout:confirm"})
OrderGrants ==
    GrantTo(AccountRoles, {"order:create", "order:view", "order:update", "order:confirm"})
PaymentGrants ==
    GrantTo(AccountRoles, {"payment:create", "payment:view", "payment:update",
                           "payment:capture", "payment:cancel"})

\* The permission to create reservations existed: who lacked it gets it.
ReservationGrants ==
    GrantTo(AccountRoles, {"reservation:view", "reservation:update",
                           "reservation:consume", "reservation:release"})
CreateReservationGrants ==
    GrantTo({"admin", "store_owner", "store_staff"}, {"reservation:create"})

ShipmentGrants ==
    GrantTo(AccountRoles, {"shipment:create", "shipment:view", "shipment:update",
                           "shipment:ship", "shipment:deliver"})

ReturnRights == {"return:create", "return:view", "return:update", "return:approve",
                 "return:receive", "return:inspect", "return:reject",
                 "refund:create", "refund:view", "refund:process"}
CustomerPermissions == {"return:create", "return:view", "return:update",
                        "refund:create", "refund:view"}
ReturnGrantsToAll == GrantTo(AccountRoles, ReturnRights)
ReturnGrants == [GrantTo(AccountRoles, ReturnRights) EXCEPT !["customer"] = CustomerPermissions]

PromotionGrants ==
    [GrantTo(AccountRoles,
             {"promotion:create", "promotion:view", "promotion:update", "promotion:activate",
              "promotion:archive", "coupon:create", "coupon:view", "coupon:update",
              "coupon:redeem"})
     EXCEPT !["customer"] = {"coupon:redeem"}]

NotificationGrants ==
    [GrantTo({"super_admin", "admin"},
             {"notification:view", "notification:update", "notification:test",
              "notification:preferences"})
     EXCEPT !["customer"] =
        {"notification:view", "notification:update", "notification:preferences"}]

Migrations ==
    {SeedGrants, PriceGrants, PriceListGrants, AttributeGrants, CartGrants, CheckoutGrants,
     OrderGrants, PaymentGrants, ReservationGrants, CreateReservationGrants, ShipmentGrants,
     ReturnGrants, PromotionGrants, NotificationGrants}

\* What a principal with these roles may do.
PermissionsOf(roles) == UNION {g[o] : g \in Migrations, o \in roles}
=============================================================================
